---- MODULE Spec2Model ----
(***************************************************************************)
(* A model of pytype's abstract bytecode virtual machine (pytype/vm.py).   *)
(*                                                                         *)
(* The module holds several specifications over one set of variables:      *)
(*   Spec       run_frame interpreting one code object, one instruction    *)
(*              handler per action (vm.py run_frame, run_instruction and   *)
(*              the byte_X handlers), with the finally tracker,            *)
(*              frame.states and the error log;                            *)
(*   SpecCall   the call stack: make_frame / run_frame / resume_frame;     *)
(*   SpecApply  one function of the machine applied to an input drawn from *)
(*              a bounded set (an instruction handler on a FrameState,     *)
(*              binary operator dispatch on two bindings, the provenance   *)
(*              graph's reachability query).                               *)
(* Each specification moves its own group of variables and leaves the      *)
(* other groups at their idle value.                                       *)
(***************************************************************************)
EXTENDS Integers, Sequences, FiniteSets, TLC

VARIABLES
  \* ---- group vm: one run_frame invocation ------------------------------
  pyver,          \* ctx.python_version: 37, 38 or 39
  code,           \* frame.f_code, an index into Codes
  order,          \* frame.f_code.order: the blocks of the code, in order
  allowed_returns, \* frame.allowed_returns: the annotated return class
  phase,          \* position in run_frame: "fetch" | "run" | "finish" | "done" | "fault"
  blk,            \* index in frame.f_code.order of the block being visited
  ip,             \* index in the block of the next instruction
  state,          \* the FrameState rolled over from instruction to instruction
  states,         \* frame.states: block -> pending FrameState (NoState if none)
  targets,        \* frame.targets: block -> jump targets it registered
  tracker,        \* finally_tracker.stack: one remembered why per open scope
  can_return,     \* run_frame's can_return
  return_nodes,   \* run_frame's return_nodes
  variables,      \* program variables: id -> set of (data, origin node)
  f_locals,       \* frame.f_locals: name -> variable id (0: no member)
  f_globals,      \* frame.f_globals
  f_builtins,     \* frame.f_builtins
  cells,          \* frame.cells: index -> variable id
  return_variable,\* frame.return_variable (a variable id)
  yield_variable, \* frame.yield_variable (a variable id)
  nnodes,         \* number of CFG nodes created
  edges,          \* CFG edges <<from, to>>
  errorlog,       \* ctx.errorlog: the diagnostics recorded, in order
  wildcard,       \* vm.has_unknown_wildcard_imports
  var_names,      \* vm._var_names: <<variable id, name>>
  late,           \* vm._late_annotations_stack is set
  report_errors,  \* ctx.options.report_errors
  fault,          \* the exception that left run_frame ("none" if none)
  last,           \* history: the instruction executed last and what it did
  trace,          \* history: <<block, index>> of each instruction executed
  \* ---- group call: the stack of frames ---------------------------------
  frames,         \* vm.frames: the frames being run, innermost last
  maximum_depth,  \* vm._maximum_depth, as run_program set it
  pending,        \* the frame make_frame returned and run_frame has not begun
  suspended,      \* generator frames that returned and can be resumed
  call_last,      \* history: the last make_frame / resume_frame and its outcome
  vm_frame,       \* vm.frame: the current frame (NoFrame for None)
  running,        \* the run_frame calls in progress, innermost last
  unwound,        \* an exception has left a run_frame call
  \* ---- group apply: one function applied to a drawn input ---------------
  fn_in,          \* the function and its arguments
  fn_out          \* what it returned (NoOut before the call)

vmVars == <<pyver, code, order, allowed_returns,
            phase, blk, ip, state, states, targets, tracker,
            can_return, return_nodes, variables, f_locals, f_globals,
            f_builtins, cells, return_variable, yield_variable, nnodes, edges,
            errorlog, wildcard, var_names, late, report_errors, fault,
            last, trace>>
callVars == <<maximum_depth, pending, suspended, call_last, vm_frame, running,
              unwound>>
applyVars == <<fn_in, fn_out>>

vars == <<vmVars, frames, callVars, applyVars>>

(***************************************************************************)
(* Abstract values (the data of a binding).                                *)
(***************************************************************************)
None == "None"
Unsolvable == "unsolvable"     \* ctx.convert.unsolvable
Unknown == "unknown"           \* abstract.Unknown
Empty == "empty"               \* ctx.convert.empty
NoReturn == "NoReturn"         \* ctx.convert.no_return
Deleted == "deleted"           \* abstract.Deleted

\* isinstance(data, abstract.AMBIGUOUS_OR_EMPTY)
\* the node the frame is run at: the root node of the program (node 1)
EntryNode == 1

AMBIGUOUS_OR_EMPTY == {Unsolvable, Unknown, Empty}

(***************************************************************************)
(* FrameState (pytype/state.py): a value; every operation returns a new    *)
(* one.  why is "none" when no completion signal is set.                   *)
(***************************************************************************)
NoWhy == "none"
NoState == [none |-> TRUE]

FrameState(stack, blocks, node, exc, why) ==
  [stack |-> stack, blocks |-> blocks, node |-> node, exc |-> exc, why |-> why]

Block(t, level) == [type |-> t, level |-> level]

push(st, v) == [st EXCEPT !.stack = Append(@, v)]
top(st) == st.stack[Len(st.stack)]
peek(st, n) == st.stack[Len(st.stack) - n + 1]
pop(st) == [st EXCEPT !.stack = SubSeq(@, 1, Len(@) - 1)]
popn(st, n) == [st EXCEPT !.stack = SubSeq(@, 1, Len(@) - n)]
topn(st, n) == SubSeq(st.stack, Len(st.stack) - n + 1, Len(st.stack))
set_why(st, why) == [st EXCEPT !.why = why]
set_exception(st) == [st EXCEPT !.exc = TRUE]
push_block_state(st, b) == [st EXCEPT !.blocks = Append(@, b)]
pop_block(st) == [st EXCEPT !.blocks = SubSeq(@, 1, Len(@) - 1)]
change_cfg_node(st, node) == [st EXCEPT !.node = node]

(***************************************************************************)
(* The mutable part of the machine an instruction handler works on, as one *)
(* record m: st (the FrameState), vars (the program's variables), nn and   *)
(* edg (the CFG), log (the error log), states and targets (of the frame),  *)
(* locals, globals, cells, yld, wild, vnames.  A handler maps m to the m    *)
(* after it.                                                               *)
(***************************************************************************)
Machine ==
  [st |-> state, vars |-> variables, nn |-> nnodes, edg |-> edges,
   log |-> errorlog, states |-> states, targets |-> targets,
   locals |-> f_locals, globals |-> f_globals, cells |-> cells,
   yld |-> yield_variable, wild |-> wildcard, vnames |-> var_names]

\* ---- cfg.Program / cfg.Variable -----------------------------------------
\* A variable is a set of <<data, origin node>>; its id is its index.
NewVariable(m, bs) == [m EXCEPT !.vars = Append(@, bs)]
NewId(m) == Len(m.vars) + 1
AddBinding(m, v, data, node) == [m EXCEPT !.vars[v] = @ \cup {<<data, node>>}]
PasteVariable(m, v, src, node) ==
  [m EXCEPT !.vars[v] = @ \cup {<<b[1], node>> : b \in m.vars[src]}]
Data(m, v) == {b[1] : b \in m.vars[v]}

\* cfg node reachability: the nodes from which `to` can be reached
RECURSIVE Ancestors(_, _)
Ancestors(edg, seen) ==
  LET more == seen \cup {e[1] : e \in {e \in edg : e[2] \in seen}}
  IN IF more = seen THEN seen ELSE Ancestors(edg, more)
is_reachable(edg, from, to) == from \in Ancestors(edg, {to})

\* Variable.Bindings(node): the data whose origin can reach the node
Bindings(m, v, node) ==
  {b[1] : b \in {b \in m.vars[v] : is_reachable(m.edg, b[2], node)}}

\* state.forward_cfg_node(): a new node after the state's node
forward_cfg_node(m) ==
  [m EXCEPT !.nn = @ + 1, !.edg = @ \cup {<<m.st.node, m.nn + 1>>},
            !.st = change_cfg_node(m.st, m.nn + 1)]

\* data.to_variable(node), ctx.new_unsolvable(node): a new variable pushed
\* by the caller; the id of the new variable is NewId(m)
to_variable(m, data, node) == NewVariable(m, {<<data, node>>})

\* self.merge_into(other): the pending state at a join
RECURSIVE paste_stack(_, _, _, _)
paste_stack(m, mine, theirs, i) ==
  IF i > Len(mine) THEN m
  ELSE paste_stack(
         IF mine[i] = theirs[i] THEN m
         ELSE [m EXCEPT !.vars[theirs[i]] = @ \cup m.vars[mine[i]]],
         mine, theirs, i + 1)

merge_into(m, other) ==
  IF other = NoState THEN m
  ELSE LET m1 == paste_stack(m, m.st.stack, other.stack, 1)
       IN [m1 EXCEPT !.edg = @ \cup {<<m.st.node, other.node>>},
                     !.st = FrameState(other.stack, m.st.blocks, other.node,
                                       m.st.exc, m.st.why)]

\* ctx.join_cfg_nodes(nodes)
join_cfg_nodes(m, nodes) ==
  IF \A i \in DOMAIN nodes : nodes[i] = nodes[1]
  THEN [m |-> m, node |-> nodes[1]]
  ELSE [m |-> [m EXCEPT !.nn = @ + 1,
                        !.edg = @ \cup {<<nodes[i], m.nn + 1>> : i \in DOMAIN nodes}],
        node |-> m.nn + 1]

(***************************************************************************)
(* Code objects as the bytecode producer hands them over: an ordered       *)
(* sequence of blocks, each a sequence of instructions.  A jump target is  *)
(* the index of a block.  Each code names the interpreter version it was   *)
(* compiled for (37, 38, 39: Python 3.7, 3.8, 3.9) and the inputs it is run *)
(* with: the binding sets tried for the name x and where x is defined.     *)
(***************************************************************************)
I(name) == [name |-> name, arg |-> 0, target |-> 0]
A(name, arg) == [name |-> name, arg |-> arg, target |-> 0]
J(name, target) == [name |-> name, arg |-> 0, target |-> target]

AllPlaces == {"locals", "globals", "builtins", "nowhere", "locals+globals",
              "globals+builtins"}

\* y = x; _p; y                                  (module level)
CodeNames ==
  [version |-> 37, places |-> AllPlaces,
   xs |-> {{"int"}, {"int", None}, {Deleted}},
   order |-> << << A("LOAD_NAME", "x"), A("STORE_NAME", "y"),
                   A("LOAD_NAME", "_p"), I("POP_TOP"),
                   A("LOAD_NAME", "y"), I("RETURN_VALUE") >> >>]

\* def g(): global-or-builtin x; return <local x>
CodeFast ==
  [version |-> 37, places |-> AllPlaces,
   xs |-> {{"int"}, {"str", None}},
   order |-> << << A("LOAD_GLOBAL", "x"), I("POP_TOP"),
                   A("LOAD_FAST", "x"), I("RETURN_VALUE") >> >>]

\* import m; from m import a
CodeImport ==
  [version |-> 37, places |-> {"nowhere"}, xs |-> {{"int"}},
   order |-> << << A("LOAD_CONST", "int"), A("LOAD_CONST", None),
                   A("IMPORT_NAME", "m"), A("STORE_NAME", "m"),
                   A("LOAD_CONST", "int"), A("LOAD_CONST", "tuple1"),
                   A("IMPORT_NAME", "m"), A("IMPORT_FROM", "a"),
                   A("STORE_NAME", "a"), I("POP_TOP"),
                   A("LOAD_CONST", None), I("RETURN_VALUE") >> >>]

\* from m import *; q; __d; x; _p
CodeImportStar ==
  [version |-> 37, places |-> {"nowhere", "builtins"}, xs |-> {{"int"}},
   order |-> << << A("LOAD_CONST", "int"), A("LOAD_CONST", "tuple1"),
                   A("IMPORT_NAME", "m"), I("IMPORT_STAR"),
                   A("LOAD_NAME", "q"), I("POP_TOP"),
                   A("LOAD_NAME", "__d"), I("POP_TOP"),
                   A("LOAD_NAME", "x"), I("POP_TOP"),
                   A("LOAD_NAME", "_p"), I("RETURN_VALUE") >> >>]

\* return x + 1
CodeAdd ==
  [version |-> 37, places |-> {"locals"},
   xs |-> {{"int"}, {"int", "str"}, {"str"}, {Unsolvable}, {None, "int"},
           {"dict"}},
   order |-> << << A("LOAD_NAME", "x"), A("LOAD_CONST", "int"),
                   I("BINARY_ADD"), I("RETURN_VALUE") >> >>]

\* a, b = x
CodeUnpack ==
  [version |-> 37, places |-> {"locals"},
   xs |-> {{"tuple2"}, {"tuple3"}, {"tuple2", "tuple3"}, {"tuple0"},
           {"iterable"}, {"tuple3", "iterable"}, {"list2"}},
   order |-> << << A("LOAD_NAME", "x"), A("UNPACK_SEQUENCE", 2),
                   A("STORE_NAME", "a"), A("STORE_NAME", "b"),
                   A("LOAD_CONST", None), I("RETURN_VALUE") >> >>]

\* try: return 1
\* finally: f()
CodeTryFinallyReturn ==
  [version |-> 37, places |-> {"locals"}, xs |-> {{"int"}},
   order |-> << << J("SETUP_FINALLY", 2), A("LOAD_CONST", "int"),
                   I("RETURN_VALUE") >>,
                << A("LOAD_NAME", "f"), A("CALL_FUNCTION", 0), I("POP_TOP"),
                   I("END_FINALLY") >>,
                << A("LOAD_CONST", None), I("RETURN_VALUE") >> >>]

\* try:
\*   if x: return 1
\* finally: f()
\* y = None
CodeTryFinallyCond ==
  [version |-> 37, places |-> {"locals"},
   xs |-> {{"bool"}, {"True"}, {"False"}},
   order |-> << << J("SETUP_FINALLY", 5), A("LOAD_NAME", "x"),
                   J("POP_JUMP_IF_FALSE", 3) >>,
                << A("LOAD_CONST", "int"), I("RETURN_VALUE") >>,
                << I("POP_BLOCK") >>,
                << A("LOAD_CONST", None) >>,
                << A("LOAD_NAME", "f"), A("CALL_FUNCTION", 0), I("POP_TOP"),
                   I("END_FINALLY") >>,
                << A("LOAD_CONST", None), A("STORE_NAME", "y"),
                   A("LOAD_CONST", None), I("RETURN_VALUE") >> >>]

\* try: return x()
\* except E: pass
\* y = None
CodeTryExceptReturn ==
  [version |-> 37, places |-> {"locals"},
   xs |-> {{"f"}, {"noreturn"}},
   order |-> << << J("SETUP_EXCEPT", 2), A("LOAD_NAME", "x"),
                   A("CALL_FUNCTION", 0), I("RETURN_VALUE") >>,
                << I("DUP_TOP"), A("LOAD_NAME", "E"),
                   A("COMPARE_OP", 10), J("POP_JUMP_IF_FALSE", 4) >>,
                << I("POP_TOP"), I("POP_TOP"), I("POP_TOP"),
                   I("POP_EXCEPT"), J("JUMP_FORWARD", 5) >>,
                << I("END_FINALLY") >>,
                << A("LOAD_CONST", None), A("STORE_NAME", "y"),
                   A("LOAD_CONST", None), I("RETURN_VALUE") >> >>]

\* try: return x()            (Python 3.8: SETUP_FINALLY sets up the except)
\* except E: pass
\* y = None
CodeTryExcept38 ==
  [version |-> 38, places |-> {"locals"},
   xs |-> {{"f"}, {"noreturn"}},
   order |-> << << J("SETUP_FINALLY", 2), A("LOAD_NAME", "x"),
                   A("CALL_FUNCTION", 0), I("POP_BLOCK"), I("RETURN_VALUE") >>,
                << I("DUP_TOP"), A("LOAD_NAME", "E"),
                   A("COMPARE_OP", 10), J("POP_JUMP_IF_FALSE", 4) >>,
                << I("POP_TOP"), I("POP_TOP"), I("POP_TOP"),
                   I("POP_EXCEPT"), J("JUMP_FORWARD", 5) >>,
                << I("END_FINALLY") >>,
                << A("LOAD_CONST", None), A("STORE_NAME", "y"),
                   A("LOAD_CONST", None), I("RETURN_VALUE") >> >>]

\* try:                         (Python 3.8)
\*   if x: return 1
\* finally: f()
\* y = None
CodeTryFinally38 ==
  [version |-> 38, places |-> {"locals"},
   xs |-> {{"bool"}, {"True"}},
   order |-> << << J("SETUP_FINALLY", 4), A("LOAD_NAME", "x"),
                   J("POP_JUMP_IF_FALSE", 3) >>,
                << A("LOAD_CONST", "int"), I("POP_BLOCK"),
                   J("CALL_FINALLY", 4), I("RETURN_VALUE") >>,
                << I("POP_BLOCK"), I("BEGIN_FINALLY") >>,
                << A("LOAD_NAME", "f"), A("CALL_FUNCTION", 0), I("POP_TOP"),
                   I("END_FINALLY") >>,
                << A("LOAD_CONST", None), A("STORE_NAME", "y"),
                   A("LOAD_CONST", None), I("RETURN_VALUE") >> >>]

\* raise                         (a bare raise, nothing being handled)
\* y = None
CodeRaise ==
  [version |-> 37, places |-> {"locals"}, xs |-> {{"int"}},
   order |-> << << A("RAISE_VARARGS", 0) >>,
                << A("LOAD_CONST", None), A("STORE_NAME", "y"),
                   A("LOAD_CONST", None), I("RETURN_VALUE") >> >>]

\* try: x()
\* except E: raise
\* raise E
CodeReraise ==
  [version |-> 37, places |-> {"locals"}, xs |-> {{"f"}},
   order |-> << << J("SETUP_EXCEPT", 2), A("LOAD_NAME", "x"),
                   A("CALL_FUNCTION", 0), I("POP_TOP"), I("POP_BLOCK"),
                   J("JUMP_FORWARD", 5) >>,
                << I("DUP_TOP"), A("LOAD_NAME", "E"),
                   A("COMPARE_OP", 10), J("POP_JUMP_IF_FALSE", 4) >>,
                << I("POP_TOP"), I("POP_TOP"), I("POP_TOP"),
                   A("RAISE_VARARGS", 0) >>,
                << I("END_FINALLY") >>,
                << A("LOAD_NAME", "E"), A("RAISE_VARARGS", 1) >> >>]

\* x; <an instruction the interpreter has no handler for>; return None
CodeUnknown ==
  [version |-> 37, places |-> {"locals", "nowhere"}, xs |-> {{"int"}},
   order |-> << << A("LOAD_NAME", "x"), I("NOP"), I("POP_TOP"),
                   A("LOAD_CONST", None), I("RETURN_VALUE") >> >>]

\* self.assertIsNotNone(x); return x
CodeNarrow ==
  [version |-> 37, places |-> {"locals", "globals"},
   xs |-> {{"int", None}, {"int"}, {None}},
   order |-> << << A("LOAD_NAME", "assertIsNotNone"), A("LOAD_NAME", "x"),
                   A("CALL_FUNCTION", 1), I("POP_TOP"),
                   A("LOAD_NAME", "x"), I("RETURN_VALUE") >> >>]

\* if x: c = "" (c a cell variable)
\* else: c
\* lambda: c; return c
CodeClosure ==
  [version |-> 37, places |-> {"locals"},
   xs |-> {{"bool"}, {"True"}, {"False"}},
   order |-> << << A("LOAD_NAME", "x"), J("POP_JUMP_IF_FALSE", 3) >>,
                << A("LOAD_CONST", "str"), A("STORE_DEREF", 1),
                   J("JUMP_FORWARD", 4) >>,
                << A("LOAD_DEREF", 1), I("POP_TOP") >>,
                << A("LOAD_CLOSURE", 1), I("POP_TOP"),
                   A("LOAD_DEREF", 1), I("RETURN_VALUE") >> >>]

\* yield x; yield 1
CodeYield ==
  [version |-> 37, places |-> {"locals"},
   xs |-> {{"int"}, {"int", None}},
   order |-> << << A("LOAD_NAME", "x"), I("YIELD_VALUE"), I("POP_TOP"),
                   A("LOAD_CONST", "str"), I("YIELD_VALUE"), I("POP_TOP"),
                   A("LOAD_CONST", None), I("RETURN_VALUE") >> >>]

\* try: return 1                (Python 3.8; the body always returns, so
\* finally: f()                  no BEGIN_FINALLY precedes the finally)
\* y = None
CodeTryFinallyReturn38 ==
  [version |-> 38, places |-> {"locals"}, xs |-> {{"int"}},
   order |-> << << J("SETUP_FINALLY", 2), A("LOAD_CONST", "int"),
                   I("POP_BLOCK"), J("CALL_FINALLY", 2), I("RETURN_VALUE") >>,
                << A("LOAD_NAME", "f"), A("CALL_FUNCTION", 0), I("POP_TOP"),
                   I("END_FINALLY") >>,
                << A("LOAD_CONST", None), A("STORE_NAME", "y"),
                   A("LOAD_CONST", None), I("RETURN_VALUE") >> >>]

\* return x + x
CodeAddSelf ==
  [version |-> 37, places |-> {"locals"},
   xs |-> {{"int"}, {"dict"}, {"int", "dict"}},
   order |-> << << A("LOAD_NAME", "x"), A("LOAD_NAME", "x"),
                   I("BINARY_ADD"), I("RETURN_VALUE") >> >>]

\* 1 in x
CodeIn ==
  [version |-> 37, places |-> {"locals"},
   xs |-> {{"FC"}, {"iterable"}, {"getitem_only"}, {"int"}, {"FC", "int"},
           {"iterable", "getitem_only"}, {Unsolvable}},
   order |-> << << A("LOAD_CONST", "int"), A("LOAD_NAME", "x"),
                   A("COMPARE_OP", 6), I("RETURN_VALUE") >> >>]

\* x is None
CodeIs ==
  [version |-> 37, places |-> {"locals"},
   xs |-> {{"int"}, {None}, {"int", None}, {Unsolvable}},
   order |-> << << A("LOAD_NAME", "x"), A("LOAD_CONST", None),
                   A("COMPARE_OP", 8), I("RETURN_VALUE") >> >>]

\* x < 1
CodeLt ==
  [version |-> 37, places |-> {"locals"},
   xs |-> {{"int"}, {"const2"}, {"conststr"}, {"type"}, {"int", "type"}},
   order |-> << << A("LOAD_NAME", "x"), A("LOAD_CONST", "const1"),
                   A("COMPARE_OP", 0), I("RETURN_VALUE") >> >>]

\* a COMPARE_OP with an argument that is no comparison
CodeCompareInvalid ==
  [version |-> 37, places |-> {"locals"},
   xs |-> {{"int"}},
   order |-> << << A("LOAD_NAME", "x"), A("LOAD_CONST", "int"),
                   A("COMPARE_OP", 11), I("RETURN_VALUE") >> >>]

\* x["k"]
CodeSubscr ==
  [version |-> 37, places |-> {"locals"},
   xs |-> {{"dict"}, {"str"}, {"int"}, {"dict", "str"}, {"dict", "int"},
           {Unsolvable}},
   order |-> << << A("LOAD_NAME", "x"), A("LOAD_CONST", "str"),
                   I("BINARY_SUBSCR"), I("RETURN_VALUE") >> >>]

\* y = None; while x: y = int
CodeWhile ==
  [version |-> 38, places |-> {"locals"},
   xs |-> {{"bool"}, {"True"}, {"False"}},
   order |-> << << A("LOAD_CONST", None), A("STORE_NAME", "y") >>,
                << A("LOAD_NAME", "x"), J("POP_JUMP_IF_FALSE", 4) >>,
                << A("LOAD_CONST", "int"), A("STORE_NAME", "y"),
                   J("JUMP_ABSOLUTE", 2) >>,
                << A("LOAD_CONST", None), I("RETURN_VALUE") >> >>]

\* try: x() finally: y = None, compiled for Python 3.9
CodeTryFinally39 ==
  [version |-> 39, places |-> {"locals"},
   xs |-> {{"f"}, {"noreturn"}},
   order |-> << << J("SETUP_FINALLY", 2), A("LOAD_NAME", "x"),
                   A("CALL_FUNCTION", 0), I("POP_TOP"), I("POP_BLOCK"),
                   A("LOAD_CONST", None), A("STORE_NAME", "y"),
                   J("JUMP_FORWARD", 3) >>,
                << A("LOAD_CONST", None), A("STORE_NAME", "y"),
                   I("RERAISE") >>,
                << A("LOAD_CONST", None), I("RETURN_VALUE") >> >>]

\* def f() -> E: raise ..., and def f() -> E: return x
CodeRaiseAnnotated ==
  [version |-> 37, places |-> {"locals"}, xs |-> {{"E"}},
   allowed_returns |-> "E",
   order |-> << << A("LOAD_NAME", "x"), A("RAISE_VARARGS", 1) >> >>]

CodeReturnAnnotated ==
  [version |-> 37, places |-> {"locals"}, xs |-> {{"int"}},
   allowed_returns |-> "E",
   order |-> << << A("LOAD_NAME", "x"), I("RETURN_VALUE") >> >>]

Codes == << CodeNames, CodeFast, CodeImport, CodeImportStar, CodeAdd,
            CodeAddSelf, CodeUnpack, CodeTryFinallyReturn, CodeTryFinallyCond,
            CodeTryExceptReturn, CodeTryExcept38, CodeTryFinally38,
            CodeTryFinallyReturn38, CodeRaise, CodeReraise, CodeUnknown, CodeNarrow, CodeClosure,
            CodeYield, CodeSubscr, CodeIn, CodeIs, CodeLt,
            CodeCompareInvalid, CodeWhile, CodeTryFinally39, CodeRaiseAnnotated,
            CodeReturnAnnotated >>

CurBlock == order[blk]
CurOp == CurBlock[ip]

\* Opcode.carry_on_to_next(): the instruction can fall through to the next
carry_on_to_next(op) ==
  op.name \notin {"RETURN_VALUE", "RAISE_VARARGS", "JUMP_FORWARD",
                  "JUMP_ABSOLUTE", "BREAK_LOOP", "CONTINUE_LOOP", "RERAISE"}

(***************************************************************************)
(* The error log: one record per diagnostic, in the order recorded.        *)
(***************************************************************************)
Diag(kind, what) == [kind |-> kind, what |-> what]
errorlog_add(m, d) == [m EXCEPT !.log = Append(@, d)]

(***************************************************************************)
(* _FinallyStateTracker                                                    *)
(***************************************************************************)
RETURN_STATES == {"return", "exception"}

\* VirtualMachine.is_setup_except(op)
is_setup_except(op) ==
  IF pyver >= 38
  THEN /\ op.name = "SETUP_FINALLY"
       /\ op.target \in DOMAIN order
       /\ LET prev == IF op.target = 1 THEN Len(order) ELSE op.target - 1
          IN \A i \in DOMAIN order[prev] : order[prev][i].name # "BEGIN_FINALLY"
  ELSE op.name = "SETUP_EXCEPT"

\* a tracker that remembers nothing: END_FINALLY closes the scope and no
\* why comes back
process_forget(tr, op, st) ==
  LET t1 == IF is_setup_except(op) THEN Append(tr, NoWhy) ELSE tr
  IN IF op.name = "END_FINALLY" /\ t1 # <<>>
     THEN [stack |-> SubSeq(t1, 1, Len(t1) - 1), why |-> NoWhy]
     ELSE [stack |-> t1, why |-> NoWhy]

\* a tracker that records a reason in every open scope
process_in_every_scope(tr, op, st) ==
  LET t1 == IF is_setup_except(op) THEN Append(tr, NoWhy) ELSE tr
  IN IF op.name = "END_FINALLY"
     THEN IF t1 # <<>>
          THEN [stack |-> SubSeq(t1, 1, Len(t1) - 1), why |-> t1[Len(t1)]]
          ELSE [stack |-> t1, why |-> NoWhy]
     ELSE IF t1 # <<>> /\ st.why \in RETURN_STATES
          THEN [stack |-> [i \in DOMAIN t1 |-> st.why], why |-> NoWhy]
          ELSE [stack |-> t1, why |-> NoWhy]

\* _FinallyStateTracker.process(op, state, ctx): the tracker's stack after
\* the call and the why it returns ("none" for None)
process(tr, op, st) ==
  LET t1 == IF is_setup_except(op) THEN Append(tr, NoWhy) ELSE tr
  IN IF op.name = "END_FINALLY"
     THEN IF t1 # <<>>
          THEN [stack |-> SubSeq(t1, 1, Len(t1) - 1), why |-> t1[Len(t1)]]
          ELSE [stack |-> t1, why |-> NoWhy]
     ELSE IF t1 # <<>> /\ st.why \in RETURN_STATES
          THEN [stack |-> [t1 EXCEPT ![Len(t1)] = st.why], why |-> NoWhy]
          ELSE [stack |-> t1, why |-> NoWhy]

\* run_frame's use of the tracker: a new tracker (empty stack), then
\* process for each instruction with the state run_instruction returned
RECURSIVE finally_tracker_after(_, _)
finally_tracker_after(steps, k) ==
  IF k = 0 THEN [stack |-> <<>>, why |-> NoWhy]
  ELSE process(finally_tracker_after(steps, k - 1).stack, steps[k].op,
               [why |-> steps[k].why])

\* _FinallyStateTracker.check_early_exit(state)
check_early_exit(st) ==
  /\ st.blocks # <<>>
  /\ \E i \in DOMAIN st.blocks : st.blocks[i].type = "finally"
  /\ st.why \in RETURN_STATES

(***************************************************************************)
(* Instruction handlers.  Each maps the machine m (and the instruction,    *)
(* and what the handler learns from outside the interpreter) to the        *)
(* machine after it.                                                       *)
(***************************************************************************)
Names == {"x", "y", "_p", "__d", "a", "b", "m", "q", "E", "f",
          "assertIsNotNone"}

\* the number of leading underscores of a name
leading_underscores(name) ==
  CASE name = "_p" -> 1 [] name = "__d" -> 2 [] OTHER -> 0

\* a variant that takes every name with a leading underscore for private
starts_with_underscore(name) == leading_underscores(name) >= 1

\* VirtualMachine._is_private(name)
_is_private(name) ==
  leading_underscores(name) >= 1 /\ ~(leading_underscores(name) >= 2)

\* push a new variable holding one value bound at the current node
push_new(m, data) ==
  LET m1 == to_variable(m, data, m.st.node)
  IN [m1 EXCEPT !.st = push(@, Len(m1.vars))]

byte_LOAD_CONST(m, op) == push_new(m, op.arg)

byte_POP_TOP(m, op) == [m EXCEPT !.st = pop(@)]

byte_DUP_TOP(m, op) == [m EXCEPT !.st = push(@, top(m.st))]

\* VirtualMachine._set_frame_return (frame.allowed_returns is None)
\* frame.allowed_returns is None
NoAnnotation == "none"

\* init_class(node, cls) as analyze.py overrides it: a new variable with
\* an instance of the class
init_class(m, node, cls) ==
  [m |-> NewVariable(m, {<<IF cls = "E" THEN "E_instance" ELSE cls, node>>}),
   var |-> NewId(m)]

_set_frame_return(m, node, var) ==
  IF allowed_returns # NoAnnotation
  THEN LET paste(r) == PasteVariable(r.m, return_variable, r.var, node)
       IN paste(init_class(m, node, allowed_returns))
  ELSE PasteVariable(m, return_variable, var, node)

\* a RETURN_VALUE that sets the return variable and then signals an exception
return_value_then_exception(m, op) ==
  LET var == top(m.st)
      m1 == [m EXCEPT !.st = pop(@)]
      m2 == _set_frame_return(m1, m1.st.node, var)
  IN [m2 EXCEPT !.st = set_why(@, "exception")]

byte_RETURN_VALUE(m, op) ==
  LET var == top(m.st)
      m1 == [m EXCEPT !.st = pop(@)]
      m2 == _set_frame_return(m1, m1.st.node, var)
  IN [m2 EXCEPT !.st = set_why(@, "return")]

\* convert.get_maybe_abstract_instance(data)
get_maybe_abstract_instance(data) ==
  IF data \in {"True", "False"} THEN "bool" ELSE data

\* isinstance(data, PythonConstant) and not isinstance(data.pyval, str)
is_nonstr_constant(data) == data \in {"True", "False"}

\* VirtualMachine._has_strict_none_origins(binding); strict is what the walk
\* over the origins of a None binding finds while analyzing
_has_strict_none_origins(data, strict) == data # None \/ strict

\* VirtualMachine._filter_none_and_paste_bindings(node, bindings, var, ...)
_filter_none_and_paste_bindings(m, node, bindings, var, discard, strict) ==
  [m EXCEPT !.vars[var] = @ \cup
     {<< IF _has_strict_none_origins(d, strict)
         THEN IF discard /\ is_nonstr_constant(d)
              THEN get_maybe_abstract_instance(d) ELSE d
         ELSE Unsolvable, node >> : d \in bindings}]

\* VirtualMachine.load_from(state, store, name, discard_concrete_values):
\* ok is FALSE for KeyError, else v is the variable loaded
load_from(m, store, name, discard, strict) ==
  IF store[name] = 0 \/ Bindings(m, store[name], m.st.node) = {}
  THEN [ok |-> FALSE, m |-> m, v |-> 0]
  ELSE LET bindings == Bindings(m, store[name], m.st.node)
           m1 == NewVariable(m, {})
           ret == Len(m1.vars)
           m2 == _filter_none_and_paste_bindings(m1, m.st.node, bindings, ret,
                                                 discard, strict)
       IN [ok |-> TRUE, m |-> [m2 EXCEPT !.vnames = @ \cup {<<ret, name>>}],
           v |-> ret]

\* load_local: the frame has no annotated-only locals, so _load_annotation
\* raises KeyError
load_local(m, name, strict) == load_from(m, m.locals, name, FALSE, strict)

load_global(m, name, strict) ==
  load_from(m, m.globals, name, name # "TYPE_CHECKING", strict)

load_builtin(m, name, strict) == load_from(m, f_builtins, name, FALSE, strict)

\* a handler that swallows the name error: unsolvable, nothing recorded
_name_error_unrecorded(m, name) == [m |-> m, data |-> Unsolvable]

\* frame.func of a frame: its kind ("none" for a frame without a function,
\* "class_builder" for a class body, "function"), for a function the number
\* of parts of its qualified name and the scopes _get_scopes resolves for
\* these parts (outermost first; cls: an InterpreterClass, defines: the name
\* is in its members, resp. in the function's last frame or annotated
\* locals), for a class body whether the name is in its annotated locals
FrameFunc(kind, nparts, outer, annotated) ==
  [kind |-> kind, nparts |-> nparts, outer |-> outer, annotated |-> annotated]

NoFrameFunc == FrameFunc("none", 0, <<>>, FALSE)

\* a code object that reads fast locals is the code of a function, here of
\* a function defined at module level
HasFastLocals ==
  \E b \in DOMAIN order : \E i \in DOMAIN order[b] :
    order[b][i].name = "LOAD_FAST"

frame_func(f) ==
  IF "func" \in DOMAIN f THEN f.func
  ELSE IF HasFastLocals THEN FrameFunc("function", 1, <<>>, FALSE)
  ELSE NoFrameFunc

\* _get_name_error_details, the walk over reversed(self.frames): the
\* number of class bodies above the first frame that is none
RECURSIVE class_frames(_, _)
class_frames(fs, i) ==
  IF i = 0 THEN 0
  ELSE IF frame_func(fs[i]).kind # "class_builder" THEN 0
  ELSE 1 + class_frames(fs, i - 1)

\* the function of first_function_frame (NoFrameFunc when there is none)
first_function_frame(fs) ==
  LET k == Len(fs) - class_frames(fs, Len(fs))
  IN IF k = 0 THEN NoFrameFunc
     ELSE IF frame_func(fs[k]).kind = "function" THEN frame_func(fs[k])
     ELSE NoFrameFunc

\* VirtualMachine._get_scopes(state, parts) for the parts of the first
\* function frame, without the last part when that frame is self.frame
_get_scopes(fs) ==
  LET f == first_function_frame(fs)
      n == IF class_frames(fs, Len(fs)) = 0 THEN f.nparts - 1 ELSE f.nparts
  IN IF f.kind # "function" THEN <<>>
     ELSE SubSeq(f.outer, 1, IF Len(f.outer) < n THEN Len(f.outer) ELSE n)

\* _get_name_error_details, the loop over the reversed scopes and the global
\* scope (i = 0): in_class once a class defining the name has been found
RECURSIVE outer_scope_details(_, _, _, _)
outer_scope_details(scopes, i, in_class, in_globals) ==
  IF in_class THEN "outer_class"
  ELSE IF i > 0 /\ scopes[i].cls
       THEN outer_scope_details(scopes, i - 1, scopes[i].defines, in_globals)
  ELSE IF (IF i > 0 THEN scopes[i].defines ELSE in_globals)
       THEN "outer_function"
  ELSE IF i > 0 THEN outer_scope_details(scopes, i - 1, FALSE, in_globals)
  ELSE "none"

\* the check of the class bodies but the innermost one
inner_class_details(fs) ==
  IF \E j \in (Len(fs) - class_frames(fs, Len(fs)) + 1)..(Len(fs) - 1) :
       frame_func(fs[j]).annotated
  THEN "inner_class" ELSE "none"

\* a variant that records what it finds in an outer scope as an error of
\* its own
name_error_details_logged(m, name, fs) ==
  [m |-> IF _get_scopes(fs) # <<>>
         THEN errorlog_add(m, Diag("name-error", name)) ELSE m,
   raised |-> FALSE,
   details |-> IF _get_scopes(fs) # <<>> THEN "outer_function" ELSE "none"]

\* VirtualMachine._get_name_error_details(state, name): the details found
\* ("none" for None); self.frame.func.data raises when the name is found in
\* an outer scope and the current frame has no function
_get_name_error_details(m, name, fs) ==
  LET details(gm, outer) ==
        [m |-> gm,
         raised |-> /\ outer = "outer_function"
                    /\ (fs = <<>> \/ frame_func(fs[Len(fs)]).kind = "none"),
         details |-> IF outer = "none" THEN inner_class_details(fs)
                     ELSE outer]
      found(g, scopes) ==
        details(g.m, outer_scope_details(scopes, Len(scopes), FALSE, g.ok))
  IN found(load_global(m, name, FALSE), _get_scopes(fs))

\* errorlog.name_error(frames, name, details)
name_error(name, details) ==
  IF details = "none" THEN Diag("name-error", name)
  ELSE [kind |-> "name-error", what |-> name, details |-> details]

\* VirtualMachine._name_error_or_late_annotation(state, name): the value
\* returned, and the log after it
_name_error_or_late_annotation(m, name) ==
  IF late
  THEN [m |-> m, data |-> "LateAnnotation", raised |-> FALSE]
  ELSE LET logged(d) ==
             IF d.raised
             THEN [m |-> d.m, data |-> "AttributeError", raised |-> TRUE]
             ELSE [m |-> errorlog_add(d.m, name_error(name, d.details)),
                   data |-> Unsolvable, raised |-> FALSE]
       IN logged(_get_name_error_details(m, name, frames))

\* a variant that lets a deleted value pass
check_for_deleted_skipped(m, name, var) == m

\* VirtualMachine.check_for_deleted(state, name, var)
check_for_deleted(m, name, var) ==
  IF Deleted \in Bindings(m, var, m.st.node)
  THEN errorlog_add(m, Diag("name-error", name))
  ELSE m

loaded(m, name, v) ==
  LET m1 == check_for_deleted(m, name, v)
  IN [m1 EXCEPT !.st = push(@, v)]

byte_LOAD_NAME(m, op, strict) ==
  LET name == op.arg
      l == load_local(m, name, strict)
      g == load_global(m, name, strict)
      b == load_builtin(m, name, strict)
  IN IF l.ok THEN loaded(l.m, name, l.v)
     ELSE IF g.ok THEN loaded(g.m, name, g.v)
     ELSE IF ~_is_private(name) /\ b.ok THEN loaded(b.m, name, b.v)
     ELSE IF _is_private(name) \/ ~m.wild
          THEN LET e == _name_error_or_late_annotation(m, name)
               IN push_new(e.m, e.data)
          ELSE push_new(m, Unsolvable)

byte_LOAD_FAST(m, op, strict) ==
  LET name == op.arg
      l == load_local(m, name, strict)
  IN IF l.ok THEN loaded(l.m, name, l.v)
     ELSE LET e == _name_error_or_late_annotation(m, name)
              m1 == to_variable(e.m, e.data, m.st.node)
          IN loaded(m1, name, Len(m1.vars))

byte_LOAD_GLOBAL(m, op, strict) ==
  LET name == op.arg
      g == load_global(m, name, strict)
      b == load_builtin(m, name, strict)
  IN IF name = "None" THEN byte_LOAD_CONST(m, A("LOAD_CONST", None))
     ELSE IF g.ok THEN loaded(g.m, name, g.v)
     ELSE IF b.ok THEN loaded(b.m, name, b.v)
     ELSE LET e == _name_error_or_late_annotation(m, name)
          IN push_new(e.m, e.data)

\* attribute_handler.set_attribute(node, target, name, value) on the locals
\* or globals: paste into the member, or create it
set_member(m, local, name, value) ==
  LET store == IF local THEN m.locals ELSE m.globals
  IN IF store[name] # 0
     THEN PasteVariable(m, store[name], value, m.st.node)
     ELSE LET m1 == NewVariable(m, {<<b[1], m.st.node>> : b \in m.vars[value]})
          IN IF local THEN [m1 EXCEPT !.locals[name] = Len(m1.vars)]
             ELSE [m1 EXCEPT !.globals[name] = Len(m1.vars)]

\* VirtualMachine._store_value(state, name, value, local)
_store_value(m, name, value, local) == set_member(m, local, name, value)

\* VirtualMachine._pop_and_store(state, op, name, local)
_pop_and_store(m, name, local) ==
  LET value == top(m.st)
      m1 == forward_cfg_node([m EXCEPT !.st = pop(@)])
      m2 == _store_value(m1, name, value, local)
  IN forward_cfg_node(m2)

byte_STORE_NAME(m, op) == _pop_and_store(m, op.arg, TRUE)

\* VirtualMachine.store_jump(target, state): mj.st is the state stored
store_jump(mj, target) ==
  LET mm == merge_into(mj, mj.states[target])
  IN [mm EXCEPT !.targets[blk] = Append(@, target), !.states[target] = mm.st]

\* VirtualMachine.push_block(state, t): level is the operand-stack depth
push_block(st, t) == push_block_state(st, Block(t, Len(st.stack)))

\* VirtualMachine.push_abstract_exception(state): tb, value, exctype
push_abstract_exception(m) ==
  push_new(push_new(push_new(m, "list"), Unknown), Unknown)

\* a setup that pushes the abstract exception once whatever the version
setup_except_pushes_once(m, op) ==
  LET m1 == store_jump(push_abstract_exception(m), op.target)
  IN [m1 EXCEPT !.st = push_block(m.st, "setup-except")]

\* VirtualMachine._setup_except(state, op)
_setup_except(m, op) ==
  LET j1 == push_abstract_exception(m)
      j2 == IF pyver >= 38 THEN push_abstract_exception(j1) ELSE j1
      m1 == store_jump(j2, op.target)
  IN [m1 EXCEPT !.st = push_block(m.st, "setup-except")]

byte_SETUP_EXCEPT(m, op) == _setup_except(m, op)

byte_SETUP_FINALLY(m, op) ==
  IF is_setup_except(op) THEN _setup_except(m, op)
  ELSE LET m1 == store_jump(push_new(m, None), op.target)
       IN [m1 EXCEPT !.st = push_block(m.st, "finally")]

byte_BEGIN_FINALLY(m, op) == push_new(m, None)

byte_CALL_FINALLY(m, op) == m

byte_POP_BLOCK(m, op) == [m EXCEPT !.st = pop_block(@)]

byte_POP_EXCEPT(m, op) ==
  IF pyver >= 38 THEN [m EXCEPT !.st = popn(@, 3)] ELSE m

\* VirtualMachine._var_is_none(v)
_var_is_none(m, v) == Data(m, v) # {} /\ \A d \in Data(m, v) : d = None

byte_END_FINALLY(m, op) ==
  LET exc == top(m.st)
  IN IF _var_is_none(m, exc) THEN [m EXCEPT !.st = pop(@)]
     ELSE [m EXCEPT !.st = set_why(popn(@, 3), "reraise")]

\* a raise that only pops its arguments
raise_ignored(m, op) == [m EXCEPT !.st = popn(m.st, op.arg)]

byte_RAISE_VARARGS(m, op) ==
  LET argc == op.arg
      st1 == popn(m.st, argc)
  IN IF argc = 0 /\ st1.exc
     THEN [m EXCEPT !.st = set_why(st1, "reraise")]
     ELSE [m EXCEPT !.st = set_why(set_exception(st1), "exception")]

byte_JUMP_FORWARD(m, op) ==
  [store_jump(forward_cfg_node(m), op.target) EXCEPT !.st = m.st]

byte_JUMP_ABSOLUTE(m, op) ==
  [store_jump(forward_cfg_node(m), op.target) EXCEPT !.st = m.st]

byte_SETUP_LOOP(m, op) == [m EXCEPT !.st = push_block(@, "loop")]

\* "while block.level < len(state.data_stack): state.pop_and_discard()"
pop_to_level(st, level) ==
  IF level < Len(st.stack) THEN [st EXCEPT !.stack = SubSeq(@, 1, level)]
  ELSE st

\* VirtualMachine._revert_state_to(state, name); block_stack[-1] of an
\* empty block stack raises IndexError
RECURSIVE _revert_state_to(_, _)
_revert_state_to(st, name) ==
  IF st.blocks = <<>> THEN [raised |-> "IndexError", st |-> st]
  ELSE IF st.blocks[Len(st.blocks)].type = name
  THEN [raised |-> "none", st |-> st]
  ELSE _revert_state_to(pop_to_level(pop_block(st),
                                     st.blocks[Len(st.blocks)].level), name)

\* a break that leaves the operands of the loop body on the stack
break_keeps_operands(m, op) ==
  LET stored(r) ==
        IF r.raised # "none" THEN [raised |-> r.raised, m |-> m]
        ELSE [raised |-> "none",
              m |-> [store_jump([m EXCEPT !.st = pop_block(r.st)], op.target)
                       EXCEPT !.st = m.st]]
  IN stored(_revert_state_to(m.st, "loop"))

\* byte_BREAK_LOOP; op.target stands for op.block_target
byte_BREAK_LOOP(m, op) ==
  LET stored(r) ==
        IF r.raised # "none" THEN [raised |-> r.raised, m |-> m]
        ELSE [raised |-> "none",
              m |-> [store_jump(
                       [m EXCEPT !.st =
                          pop_to_level(pop_block(r.st),
                                       r.st.blocks[Len(r.st.blocks)].level)],
                       op.target)
                       EXCEPT !.st = m.st]]
  IN stored(_revert_state_to(m.st, "loop"))

byte_CONTINUE_LOOP(m, op) ==
  LET stored(r) ==
        IF r.raised # "none" THEN [raised |-> r.raised, m |-> m]
        ELSE [raised |-> "none",
              m |-> [store_jump([m EXCEPT !.st = r.st], op.target)
                       EXCEPT !.st = m.st]]
  IN stored(_revert_state_to(m.st, "loop"))

byte_RERAISE(m, op) == [m EXCEPT !.st = set_why(popn(@, 3), "reraise")]

\* compare.compatible_with(data, logical_value)
compatible_with(data, value) ==
  IF data = "True" THEN value
  ELSE IF data \in {"False", None} THEN ~value
  ELSE TRUE

\* state.split_conditions: the condition under which the value has the
\* logical value: "unsatisfiable", "none" (no restriction) or "restricted"
_restrict_condition(m, v, value) ==
  LET ok == {d \in Data(m, v) : compatible_with(d, value)}
  IN IF ok = {} THEN "unsatisfiable"
     ELSE IF ok # Data(m, v) THEN "restricted"
     ELSE "none"

\* a conditional jump that schedules its target whatever the condition
jump_if_always_stores(m, op, dopop, jump_if, or_pop) ==
  LET value == top(m.st)
      m0 == IF dopop THEN [m EXCEPT !.st = pop(@)] ELSE m
      normal == _restrict_condition(m, value, ~jump_if)
      m1 == [store_jump(forward_cfg_node(m0), op.target) EXCEPT !.st = m0.st]
      m2 == IF or_pop THEN [m1 EXCEPT !.st = pop(@)] ELSE m1
  IN IF normal = "unsatisfiable"
     THEN [m2 EXCEPT !.st = set_why(@, "unsatisfiable")]
     ELSE forward_cfg_node(m2)

\* VirtualMachine._jump_if(state, op, pop, jump_if, or_pop)
_jump_if(m, op, dopop, jump_if, or_pop) ==
  LET value == top(m.st)
      m0 == IF dopop THEN [m EXCEPT !.st = pop(@)] ELSE m
      jump == _restrict_condition(m, value, jump_if)
      normal == _restrict_condition(m, value, ~jump_if)
      else_m == IF jump = "restricted"
                THEN forward_cfg_node(forward_cfg_node(m0))
                ELSE forward_cfg_node(m0)
      m1 == IF jump # "unsatisfiable"
            THEN [store_jump(else_m, op.target) EXCEPT !.st = m0.st]
            ELSE m0
      m2 == IF or_pop THEN [m1 EXCEPT !.st = pop(@)] ELSE m1
  IN IF normal = "unsatisfiable"
     THEN [m2 EXCEPT !.st = set_why(@, "unsatisfiable")]
     ELSE IF jump = "unsatisfiable" /\ normal = "none" THEN m2
     ELSE forward_cfg_node(m2)

byte_POP_JUMP_IF_FALSE(m, op) == _jump_if(m, op, TRUE, FALSE, FALSE)

byte_JUMP_IF_TRUE_OR_POP(m, op) == _jump_if(m, op, FALSE, TRUE, TRUE)

byte_JUMP_IF_FALSE_OR_POP(m, op) == _jump_if(m, op, FALSE, FALSE, TRUE)

byte_JUMP_IF_TRUE(m, op) == _jump_if(m, op, FALSE, TRUE, FALSE)

byte_JUMP_IF_FALSE(m, op) == _jump_if(m, op, FALSE, FALSE, FALSE)

byte_POP_JUMP_IF_TRUE(m, op) == _jump_if(m, op, TRUE, TRUE, FALSE)

\* is the class an exception class (BaseException or an ambiguous base in
\* its mro)
is_exception_class(data) == data = "E"

\* VirtualMachine._instantiate_exception(node, exc_type) for a variable of
\* classes: the instance variable is NewId of the machine returned
_instantiate_exception(m, exc_type) ==
  LET ds == Data(m, exc_type)
      bad == {d \in ds : ~is_exception_class(d) /\ d \notin AMBIGUOUS_OR_EMPTY}
      vals == {<<IF is_exception_class(d) THEN "E_instance" ELSE Unsolvable,
                 m.st.node>> : d \in ds}
      m1 == IF bad # {}
            THEN errorlog_add(m, Diag("mro-error", CHOOSE d \in bad : TRUE))
            ELSE m
  IN [m |-> NewVariable(m1, vals),
      invalid |-> \E d \in ds : ~is_exception_class(d)]

\* VirtualMachine._replace_abstract_exception(state, exc_type)
_replace_abstract_exception(m, exc_type) ==
  LET r == _instantiate_exception(m, exc_type)
      value == Len(r.m.vars)
      m1 == IF r.invalid THEN to_variable(r.m, Unsolvable, m.st.node) ELSE r.m
      typ == IF r.invalid THEN Len(m1.vars) ELSE exc_type
  IN IF pyver >= 38
     THEN LET tb == peek(m.st, 3)
          IN [m1 EXCEPT !.st.stack =
                SubSeq(@, 1, Len(@) - 5) \o <<value, typ, tb, value, typ>>]
     ELSE [m1 EXCEPT !.st.stack = SubSeq(@, 1, Len(@) - 2) \o <<value, typ>>]

(***************************************************************************)
(* The classes the operands of a binary operator are drawn from, as the    *)
(* attribute handler and the call machinery present them: the mro of each  *)
(* class, the methods each class defines itself, and what a call of a      *)
(* method returns.  A value is named after its class.                      *)
(*   int, str: the builtins; NoneType ("None") and dict define no __add__; *)
(*   A defines __add__ and __radd__; B(A) overrides __radd__; C(A) defines *)
(*   nothing; R defines only __radd__; F defines an __add__ that always    *)
(*   fails (returns NotImplemented); G(A) overrides __radd__ with one that *)
(*   always fails.                                                         *)
(***************************************************************************)
Classes == {"int", "str", None, "dict", "A", "B", "C", "R", "F", "G"}

cls_mro(c) ==
  CASE c = "B" -> <<"B", "A", "object">>
    [] c = "C" -> <<"C", "A", "object">>
    [] c = "G" -> <<"G", "A", "object">>
    [] c = "object" -> <<"object">>
    [] OTHER -> <<c, "object">>

cls_members(c) ==
  CASE c = "int" -> {"__add__", "__radd__", "__lt__"}
    [] c = "str" -> {"__add__", "__getitem__", "__lt__"}
    [] c = "dict" -> {"__getitem__"}
    [] c = "A" -> {"__add__", "__radd__"}
    [] c = "B" -> {"__radd__"}
    [] c = "R" -> {"__radd__"}
    [] c = "F" -> {"__add__"}
    [] c = "G" -> {"__radd__"}
    [] c = "FC" -> {"__contains__"}
    [] c \in {"Aw", "AwGen", "AwCoro", "AwAw"} -> {"__await__"}
    [] OTHER -> {}

\* slots.REVERSE_NAME_MAPPING.get(name); "" for None
REVERSE_NAME_MAPPING(name) ==
  CASE name = "__add__" -> "__radd__"
    [] name = "__sub__" -> "__rsub__"
    [] OTHER -> ""

\* attribute_handler.get_attribute(node, data, attr): the class whose method
\* is found ("" if the attribute is missing, "any" on an ambiguous value)
get_attribute(data, attr) ==
  IF data \in AMBIGUOUS_OR_EMPTY THEN "any"
  ELSE LET mro == cls_mro(data)
           hits == {i \in DOMAIN mro : attr \in cls_members(mro[i])}
       IN IF hits = {} THEN ""
          ELSE mro[CHOOSE i \in hits : \A j \in hits : i <= j]

\* function.call_function(ctx, node, attr_var, args, fallback_to_unsolvable=
\* False) on the method found in class c: the value returned, or the error
\* raised (FailedFunctionCall, DictKeyMissing)
Returned(data) == [ok |-> TRUE, data |-> data, error |-> "none"]
Raised(error) == [ok |-> FALSE, data |-> "", error |-> error]

call_function(c, attr, self, arg) ==
  CASE c = "any" -> Returned(Unsolvable)
    [] c = "int" /\ attr \in {"__add__", "__radd__"} ->
         IF arg \in {"int"} \cup AMBIGUOUS_OR_EMPTY THEN Returned("int")
         ELSE Raised("FailedFunctionCall")
    [] c = "int" /\ attr = "__lt__" ->
         IF arg \in {"int"} \cup AMBIGUOUS_OR_EMPTY THEN Returned("bool")
         ELSE Raised("FailedFunctionCall")
    [] c = "str" /\ attr \in {"__add__", "__lt__"} ->
         IF arg \in {"str"} \cup AMBIGUOUS_OR_EMPTY
         THEN Returned(IF attr = "__add__" THEN "str" ELSE "bool")
         ELSE Raised("FailedFunctionCall")
    [] c = "str" /\ attr = "__getitem__" ->
         IF arg \in {"int"} \cup AMBIGUOUS_OR_EMPTY THEN Returned("str")
         ELSE Raised("FailedFunctionCall")
    [] c = "dict" /\ attr = "__getitem__" ->
         IF arg = "str" THEN Raised("DictKeyMissing") ELSE Returned(Unsolvable)
    [] c = "FC" ->
         IF arg \in {"int"} \cup AMBIGUOUS_OR_EMPTY THEN Returned("True")
         ELSE Raised("FailedFunctionCall")
    [] c \in {"F", "G"} -> Raised("FailedFunctionCall")
    [] OTHER -> Returned(c)

\* VirtualMachine._overrides(node, subcls, supercls, attr)
RECURSIVE overrides_from(_, _, _, _)
overrides_from(mro, i, supercls, attr) ==
  IF i > Len(mro) THEN FALSE
  ELSE IF mro[i] = supercls THEN FALSE
  ELSE IF attr \in cls_members(mro[i]) THEN TRUE
  ELSE overrides_from(mro, i + 1, supercls, attr)

\* a subclass test that never finds an override
overrides_never(subcls, supercls, attr) == FALSE

_overrides(subcls, supercls, attr) ==
  IF \E i \in DOMAIN cls_mro(subcls) : cls_mro(subcls)[i] = supercls
  THEN overrides_from(cls_mro(subcls), 1, supercls, attr)
  ELSE FALSE

\* the candidates of _call_binop_on_bindings, in the order they are tried
Option(left, right, attr) == [left |-> left, right |-> right, attr |-> attr]

binop_options(name, x, y) ==
  LET rname == REVERSE_NAME_MAPPING(name)
  IN IF rname = "" THEN << Option(x, y, name) >>
     ELSE IF _overrides(y, x, rname)
          THEN << Option(y, x, rname), Option(x, y, name) >>
          ELSE << Option(x, y, name), Option(y, x, rname) >>

\* the loop over the options: every attribute looked up is recorded in
\* `tried` together with whether a method was found and called and whether
\* the call returned; sources is the source set the function itself gives
\* its result ({} when the result is the one call_function made)
RECURSIVE try_options(_, _, _, _)
try_options(opts, i, error, tried) ==
  IF i > Len(opts)
  THEN IF error # "none"
       THEN [kind |-> "error", data |-> "", error |-> error, tried |-> tried,
             sources |-> {}]
       ELSE [kind |-> "none", data |-> "", error |-> "none", tried |-> tried,
             sources |-> {}]
  ELSE LET o == opts[i]
           c == get_attribute(o.left, o.attr)
           r == call_function(c, o.attr, o.left, o.right)
           t == Append(tried, [obj |-> o.left, attr |-> o.attr,
                               called |-> c # "",
                               returned |-> c # "" /\ r.ok])
       IN IF c = "" THEN try_options(opts, i + 1, error, t)
          ELSE IF r.ok
          THEN [kind |-> "ret", data |-> r.data, error |-> "none", tried |-> t,
                sources |-> {}]
          ELSE try_options(opts, i + 1,
                           IF error = "none" THEN r.error ELSE error, t)

\* a dispatch that tries the candidates whatever x is
binop_without_shortcut(name, x, y) ==
  try_options(binop_options(name, x, y), 1, "none", <<>>)

\* VirtualMachine._call_binop_on_bindings(node, name, xval, yval) on the
\* data of the two bindings: kind is "ret" (a result variable holding data,
\* with source set {xval, yval} when shortcut), "none" (no result) or
\* "error" (the error raised)
_call_binop_on_bindings(name, x, y) ==
  IF REVERSE_NAME_MAPPING(name) # "" /\ x \in AMBIGUOUS_OR_EMPTY
  THEN [kind |-> "ret", data |-> Unsolvable, error |-> "none", tried |-> <<>>,
        sources |-> {x, y}]
  ELSE try_options(binop_options(name, x, y), 1, "none", <<>>)

\* VirtualMachine.call_binary_operator(state, name, x, y, report_errors)
\* on two variables; the result variable is NewId of the machine returned
\* a variant that reports only operands whose bindings reach the node
binop_asks_reachability(m, name, x, y, report) ==
  LET pairs == Data(m, x) \X Data(m, y)
      res == [p \in pairs |-> _call_binop_on_bindings(name, p[1], p[2])]
      results == {<<res[p].data, m.st.node>> : p \in {q \in pairs : res[q].kind = "ret"}}
      errors == {res[p].error : p \in {q \in pairs : res[q].kind = "error"}}
      unsolvable == [m EXCEPT !.vars = Append(@, {<<Unsolvable, m.st.node>>})]
      live == \A b \in m.vars[x] \cup m.vars[y] :
                is_reachable(m.edg, b[2], m.st.node)
  IN IF results = {} /\ report
     THEN IF ~live \/ ~report_errors \/ errors = {"DictKeyMissing"}
          THEN unsolvable
          ELSE IF errors = {}
          THEN errorlog_add(unsolvable, Diag("unsupported-operands", name))
          ELSE errorlog_add(unsolvable, Diag("invalid-function-call", name))
     ELSE NewVariable(m, results)

\* a variant that gives up, with a report, when a pair of bindings fails
binop_gives_up_on_failure(m, name, x, y, report) ==
  LET pairs == Data(m, x) \X Data(m, y)
      res == [p \in pairs |-> _call_binop_on_bindings(name, p[1], p[2])]
      unsolvable == [m EXCEPT !.vars = Append(@, {<<Unsolvable, m.st.node>>})]
  IN IF \E p \in pairs : res[p].kind # "ret"
     THEN errorlog_add(unsolvable, Diag("unsupported-operands", name))
     ELSE NewVariable(m, {<<res[p].data, m.st.node>> : p \in pairs})

\* a variant that reports every pair of bindings that yields no result
binop_reports_each_pair(m, name, x, y, report) ==
  LET pairs == Data(m, x) \X Data(m, y)
      res == [p \in pairs |-> _call_binop_on_bindings(name, p[1], p[2])]
      results == {<<res[p].data, m.st.node>> : p \in {q \in pairs : res[q].kind = "ret"}}
      m1 == NewVariable(m, IF results = {} THEN {<<Unsolvable, m.st.node>>}
                           ELSE results)
  IN IF report /\ \E p \in pairs : res[p].kind # "ret"
     THEN errorlog_add(m1, Diag("unsupported-operands", name))
     ELSE m1

call_binary_operator(m, name, x, y, report) ==
  LET pairs == Data(m, x) \X Data(m, y)
      res == [p \in pairs |-> _call_binop_on_bindings(name, p[1], p[2])]
      results == {<<res[p].data, m.st.node>> : p \in {q \in pairs : res[q].kind = "ret"}}
      errors == {res[p].error : p \in {q \in pairs : res[q].kind = "error"}}
      m1 == NewVariable(m, results)
      unsolvable == [m EXCEPT !.vars = Append(@, {<<Unsolvable, m.st.node>>})]
  IN IF results = {} /\ report
     THEN IF errors = {}
          THEN IF report_errors
               THEN errorlog_add(unsolvable, Diag("unsupported-operands", name))
               ELSE unsolvable
          ELSE IF "FailedFunctionCall" \notin errors THEN unsolvable
          ELSE IF report_errors
               THEN errorlog_add(unsolvable, Diag("invalid-function-call", name))
               ELSE unsolvable
     ELSE m1

\* VirtualMachine.binary_operator(state, name, report_errors=True)
binary_operator(m, name) ==
  LET x == peek(m.st, 2)
      y == peek(m.st, 1)
      m1 == call_binary_operator([m EXCEPT !.st = popn(@, 2)], name, x, y, TRUE)
  IN [m1 EXCEPT !.st = push(@, Len(m1.vars))]

byte_BINARY_ADD(m, op) == binary_operator(m, "__add__")

byte_BINARY_SUBSCR(m, op) == binary_operator(m, "__getitem__")

(***************************************************************************)
(* cfg: origins, source sets and the reachability query.  A binding has a  *)
(* set of origins; an origin is a node and a set of source sets, each a    *)
(* set of bindings that must all be visible (the source sets of an origin  *)
(* are alternatives; an origin without prerequisites has the empty source  *)
(* set).  origins maps a binding to its origins.                           *)
(***************************************************************************)
Origin(node, source_sets) == [node |-> node, source_sets |-> source_sets]

\* a walk that takes every binding of a source set for reachable
source_always(edg, origins, node, b, seen) == TRUE

\* the graph walk: a binding of a source set holds at the query node when
\* one of its origins lies on a node the query node is reached from and has
\* a source set all of whose bindings hold; a binding already being decided
\* (seen) is not walked again
RECURSIVE source_reachable(_, _, _, _, _)
source_reachable(edg, origins, node, b, seen) ==
  \E o \in origins[b] :
    /\ is_reachable(edg, o.node, node)
    /\ \E S \in o.source_sets :
         \A s \in S :
           s \notin seen
             /\ source_reachable(edg, origins, node, s, seen \cup {b})

\* a query that walks the graph for every binding
has_combination_walk_only(edg, origins, node, bindings) ==
  \A b \in bindings : source_reachable(edg, origins, node, b, {})

\* has_combination(node, bindings): every binding has an origin without
\* prerequisites (always visible) or an origin on a node backward-reachable
\* from the query node with a source set whose bindings all hold there
has_combination(edg, origins, node, bindings) ==
  \A b \in bindings :
    \E o \in origins[b] :
      \/ {} \in o.source_sets
      \/ /\ is_reachable(edg, o.node, node)
         /\ \E S \in o.source_sets :
              \A s \in S : source_reachable(edg, origins, node, s, {b})

\* node.HasCombination([binding]) for the binding of variable v that holds
\* data; the bindings of the machine have no source sets
HasCombination1(m, v, data) ==
  /\ \E b \in m.vars[v] : b[1] = data
  /\ has_combination(m.edg,
                     [d \in {data} |->
                        {Origin(b[2], {{}}) : b \in {c \in m.vars[v] : c[1] = d}}],
                     m.st.node, {data})

(***************************************************************************)
(* attributes                                                              *)
(***************************************************************************)
\* the length of a literal tuple or list (-1: not a literal sequence)
literal_len(data) ==
  CASE data = "tuple0" -> 0
    [] data = "tuple1" -> 1
    [] data \in {"tuple2", "list2"} -> 2
    [] data = "tuple3" -> 3
    [] data = "tuple4" -> 4
    [] OTHER -> -1

\* the data has an __iter__ method
has_iter(data) ==
  literal_len(data) >= 0 \/ data \in {"iterable", "str", "dict"}

\* the data has a __getitem__ method
has_getitem(data) ==
  literal_len(data) >= 0 \/ data \in {"getitem_only", "str", "dict"}

\* attribute_handler.get_attribute(node, data, attr, binding): the values of
\* the attribute; an instance of P has a: int, an instance of Q has a: None,
\* every instance has __class__
attr_values(data, attr) ==
  CASE data \in AMBIGUOUS_OR_EMPTY -> {Unsolvable}
    [] attr = "__class__" -> {"type"}
    [] attr = "__iter__" -> IF has_iter(data) THEN {"method"} ELSE {}
    [] attr = "__getitem__" -> IF has_getitem(data) THEN {"method"} ELSE {}
    [] attr = "__contains__" ->
         IF get_attribute(data, attr) # "" THEN {"method"} ELSE {}
    [] data = "P" /\ attr = "a" -> {"int"}
    [] data = "Q" /\ attr = "a" -> {None}
    [] OTHER -> {}

NoCallself == {"none"}

\* VirtualMachine._retrieve_attr(node, obj, attr): the result variable (0
\* for None) and the values of obj without the attribute; callself is the
\* data of the top of ctx.callself_stack
_retrieve_attr(m, obj, attr, callself, strict) ==
  LET with == {d \in Data(m, obj) : attr_values(d, attr) # {}}
      pasted(m1) ==
        [m |-> _filter_none_and_paste_bindings(
                 m1, m.st.node, UNION {attr_values(d, attr) : d \in with},
                 Len(m1.vars), FALSE, strict),
         result |-> IF with # {} THEN Len(m1.vars) ELSE 0,
         errors |-> Data(m, obj) \ with]
  IN IF attr = "__class__" /\ callself # NoCallself /\ Data(m, obj) = callself
     THEN [m |-> NewVariable(m, {<<Unsolvable, m.st.node>>}),
           result |-> Len(m.vars) + 1, errors |-> {}]
     ELSE pasted(NewVariable(m, {}))

\* errorlog.attribute_error for every binding of a set
RECURSIVE log_attribute_errors(_, _, _)
log_attribute_errors(m, errors, attr) ==
  IF errors = {} THEN m
  ELSE LET e == CHOOSE e \in errors : TRUE
       IN log_attribute_errors(
            errorlog_add(m, [kind |-> "attribute-error", what |-> e,
                             attr |-> attr]),
            errors \ {e}, attr)

\* a variant that reports every value without the attribute
attribute_error_unchecked(m, attr, errors, func, origins) ==
  IF report_errors THEN log_attribute_errors(m, errors, attr) ELSE m

\* VirtualMachine._attribute_error_detection(state, attr, errors); func is
\* the set holding the binding of frame.func (empty when the frame has
\* none), origins the origins of the bindings
_attribute_error_detection(m, attr, errors, func, origins) ==
  IF ~report_errors THEN m
  ELSE log_attribute_errors(
         m, {e \in errors :
               has_combination(m.edg, origins, m.st.node, {e} \cup func)},
         attr)

\* VirtualMachine.load_attr(state, obj, attr)
load_attr(m, obj, attr, callself, strict, func, origins) ==
  LET checked(m1, result) ==
        IF result = 0
        THEN [m |-> NewVariable(m1, {<<Unsolvable, m.st.node>>}),
              result |-> Len(m1.vars) + 1]
        ELSE [m |-> m1, result |-> result]
      retrieved(r) ==
        checked(_attribute_error_detection(r.m, attr, r.errors, func, origins),
                r.result)
  IN retrieved(_retrieve_attr(m, obj, attr, callself, strict))

\* VirtualMachine.load_attr_noerror(state, obj, attr)
load_attr_noerror(m, obj, attr, callself, strict) ==
  LET retrieved(r) == [m |-> r.m, result |-> r.result]
  IN retrieved(_retrieve_attr(m, obj, attr, callself, strict))

(***************************************************************************)
(* comparisons                                                             *)
(***************************************************************************)
\* slots.CMP_*: the arguments of COMPARE_OP
CMP_LT == 0
CMP_LE == 1
CMP_EQ == 2
CMP_NE == 3
CMP_GT == 4
CMP_GE == 5
CMP_IN == 6
CMP_NOT_IN == 7
CMP_IS == 8
CMP_IS_NOT == 9
CMP_EXC_MATCH == 10

\* slots.CMP_ALWAYS_SUPPORTED
CMP_ALWAYS_SUPPORTED == {CMP_EQ, CMP_NE, CMP_IS, CMP_IS_NOT}

\* ctx.convert.bool_values[pyval] for a pyval that is True or False
bool_const(b) == IF b THEN "True" ELSE "False"

\* the value of an int constant (0: not an int constant)
const_value(d) == CASE d = "const1" -> 1 [] d = "const2" -> 2 [] OTHER -> 0

\* slots.COMPARES[op] on two ints
compares(op_name, a, b) ==
  CASE op_name = "LT" -> a < b
    [] op_name = "LE" -> a <= b
    [] op_name = "EQ" -> a = b
    [] op_name = "NE" -> a # b
    [] op_name = "GT" -> a > b
    [] op_name = "GE" -> a >= b

\* compare.cmp_rel(ctx, op, left, right): "True" or "False" for two
\* constants the built-in comparison classifies, "CmpTypeError" for an
\* ordering of an int and a str constant, "none" for values it cannot
\* classify
cmp_rel(op_name, left, right) ==
  IF const_value(left) > 0 /\ const_value(right) > 0
  THEN bool_const(compares(op_name, const_value(left), const_value(right)))
  ELSE IF {left, right} \subseteq {"const1", "const2", "conststr"}
  THEN IF left = right THEN bool_const(op_name \in {"LE", "EQ", "GE"})
       ELSE IF op_name \in {"EQ", "NE"} THEN bool_const(op_name = "NE")
       ELSE "CmpTypeError"
  ELSE "none"

\* "__%s__" % op_name.lower()
cmp_dunder(op_name) ==
  CASE op_name = "LT" -> "__lt__"
    [] op_name = "LE" -> "__le__"
    [] op_name = "EQ" -> "__eq__"
    [] op_name = "NE" -> "__ne__"
    [] op_name = "GT" -> "__gt__"
    [] op_name = "GE" -> "__ge__"

\* the origins of the bindings of the operands x and y of the machine, which
\* have no source sets
MachineOrigins(m, x, y) ==
  [k \in ({"x"} \X Data(m, x)) \cup ({"y"} \X Data(m, y)) |->
     {Origin(b[2], {{}}) :
        b \in {c \in m.vars[IF k[1] = "x" THEN x ELSE y] : c[1] = k[2]}}]

RECURSIVE log_times(_, _, _)
log_times(m, n, d) ==
  IF n = 0 THEN m ELSE log_times(errorlog_add(m, d), n - 1, d)

\* a variant that reports every pair the built-in comparison rejects
cmp_rel_reports_unreachable(m, op_name, x, y, origins) ==
  LET pairs == Data(m, x) \X Data(m, y)
      rejected == {p \in pairs : cmp_rel(op_name, p[1], p[2]) = "CmpTypeError"}
      m1 == log_times(m, Cardinality(rejected),
                      Diag("unsupported-operands", op_name))
  IN [m |-> NewVariable(m1, {<<cmp_rel(op_name, p[1], p[2]), m.st.node>> :
                               p \in {q \in pairs : cmp_rel(op_name, q[1], q[2])
                                                       \in {"True", "False"}}}),
      ret |-> Len(m1.vars) + 1]

\* a variant that hands both operands on whole when a pair is left over
cmp_rel_passes_operands(m, op_name, x, y, origins) ==
  LET pairs == Data(m, x) \X Data(m, y)
      classified == {p \in pairs :
                       cmp_rel(op_name, p[1], p[2]) \in {"True", "False"}}
      pasted(m1, n) == [m |-> PasteVariable(m1, n + 1, Len(m1.vars), m.st.node),
                        ret |-> n + 1]
      leftover(m1, n, left) ==
        IF left # {}
        THEN pasted(call_binary_operator(m1, cmp_dunder(op_name), n + 2, n + 3,
                                         FALSE), n)
        ELSE [m |-> m1, ret |-> n + 1]
      compared(m1, left) ==
        leftover(
          [m1 EXCEPT !.vars =
             @ \o << {<<cmp_rel(op_name, p[1], p[2]), m.st.node>> :
                        p \in pairs \ left},
                     IF left = {} THEN {} ELSE {<<p[1], m.st.node>> : p \in pairs},
                     IF left = {} THEN {} ELSE {<<p[2], m.st.node>> : p \in pairs} >>],
          Len(m1.vars), left)
  IN compared(m, pairs \ classified)

\* VirtualMachine._cmp_rel(state, op_name, x, y); origins are the origins of
\* the bindings of x and y
_cmp_rel(m, op_name, x, y, origins) ==
  LET pairs == Data(m, x) \X Data(m, y)
      reported == {p \in pairs :
                     /\ cmp_rel(op_name, p[1], p[2]) = "CmpTypeError"
                     /\ has_combination(m.edg, origins, m.st.node,
                                        {<<"x", p[1]>>, <<"y", p[2]>>})}
      classified == {p \in pairs :
                       cmp_rel(op_name, p[1], p[2]) \in {"True", "False"}}
      \* ret, leftover_x and leftover_y are the variables n + 1, n + 2 and
      \* n + 3 of a machine that had n variables
      pasted(m1, n) == [m |-> PasteVariable(m1, n + 1, Len(m1.vars), m.st.node),
                        ret |-> n + 1]
      leftover(m1, n, left) ==
        IF left # {}
        THEN pasted(call_binary_operator(m1, cmp_dunder(op_name), n + 2, n + 3,
                                         FALSE), n)
        ELSE [m |-> m1, ret |-> n + 1]
      compared(m1, left) ==
        leftover(
          [m1 EXCEPT !.vars =
             @ \o << {<<cmp_rel(op_name, p[1], p[2]), m.st.node>> :
                        p \in pairs \ left},
                     {<<p[1], m.st.node>> : p \in left},
                     {<<p[2], m.st.node>> : p \in left} >>],
          Len(m1.vars), left)
  IN compared(log_times(m, Cardinality(reported),
                        Diag("unsupported-operands", op_name)),
              pairs \ classified)

\* VirtualMachine._coerce_to_bool(node, var, true_val)
_coerce_to_bool(m, var, true_val) ==
  NewVariable(m,
    {<< IF v \in {"True", "False"} THEN bool_const((v = "True") = true_val)
        ELSE IF ~compatible_with(v, TRUE) THEN bool_const(~true_val)
        ELSE IF ~compatible_with(v, FALSE) THEN bool_const(true_val)
        ELSE "bool", m.st.node >> : v \in Data(m, var)})

\* what calling the __iter__ method of the data returns
iter_of(data) ==
  IF data \in AMBIGUOUS_OR_EMPTY THEN Unsolvable
  ELSE IF literal_len(data) >= 0 THEN "tupleiterator" ELSE "iterator"

\* VirtualMachine._get_iter(state, seq, report_errors): the iterator
\* variable, and the attributes looked up on seq
_get_iter(m, seq, report) ==
  LET iterable == {d \in Data(m, seq) : attr_values(d, "__iter__") # {}}
      made(m1, lookups) == [m |-> m1, itr |-> Len(m1.vars), lookups |-> lookups]
      reported(m1, errors) ==
        [m |-> IF report /\ report_errors
               THEN log_attribute_errors(
                      m1, {d \in errors : HasCombination1(m1, seq, d)},
                      "__iter__")
               ELSE m1,
         itr |-> Len(m1.vars), lookups |-> << "__iter__", "__getitem__" >>]
      getitem(g) ==
        reported(NewVariable(g.m, IF g.result # 0
                                  THEN {<<"iterator", m.st.node>>} ELSE {}),
                 g.errors)
      iter(it) ==
        IF it.result # 0
        THEN made(NewVariable(it.m, {<<iter_of(d), m.st.node>> : d \in iterable}),
                  << "__iter__" >>)
        ELSE getitem(_retrieve_attr(it.m, seq, "__getitem__", NoCallself, TRUE))
  IN iter(load_attr_noerror(m, seq, "__iter__", NoCallself, TRUE))

\* a variant that reports whenever seq has no __contains__
cmp_in_without_fallback(m, item, seq, true_val) ==
  LET m1 == errorlog_add(m, Diag("unsupported-operands", "__contains__"))
      m2 == NewVariable(m1, {<<"bool", m.st.node>>})
  IN [m |-> m2, ret |-> Len(m2.vars), lookups |-> << "__contains__" >>]

\* VirtualMachine._cmp_in(state, item, seq, true_val): the result variable,
\* and the attributes looked up on seq
_cmp_in(m, item, seq, true_val) ==
  LET contains(m1) ==
        [m |-> IF m1.vars[Len(m1.vars)] # {}
               THEN _coerce_to_bool(m1, Len(m1.vars), true_val) ELSE m1,
         ret |-> IF m1.vars[Len(m1.vars)] # {} THEN Len(m1.vars) + 1
                 ELSE Len(m1.vars),
         lookups |-> << "__contains__" >>]
      fallback(gi) ==
        [m |-> NewVariable(
                 IF Cardinality(Data(gi.m, gi.itr)) < Cardinality(Data(m, seq))
                 THEN errorlog_add(gi.m, Diag("unsupported-operands",
                                              "__contains__"))
                 ELSE gi.m,
                 {<<"bool", m.st.node>>}),
         ret |-> Len(gi.m.vars) + 1,
         lookups |-> << "__contains__" >> \o gi.lookups]
      has(hc) ==
        IF hc.result # 0
        THEN contains(call_binary_operator(hc.m, "__contains__", seq, item,
                                           TRUE))
        ELSE fallback(_get_iter(hc.m, seq, FALSE))
  IN has(load_attr_noerror(m, seq, "__contains__", NoCallself, TRUE))

\* frame.func and frame.first_arg: the kind of the function of the frame
\* ("none" when the frame has no function) and the data of its first argument
NoFirstArg == {"none"}
NoFunc == [func |-> "none", first_arg |-> NoFirstArg]

\* VirtualMachine._is_classmethod_cls_arg(var)
_is_classmethod_cls_arg(m, var, frame) ==
  IF ~(frame.func # "none" /\ frame.first_arg # NoFirstArg) THEN FALSE
  ELSE IF frame.func \in {"classmethod", "__new__"}
  THEN Data(m, var) \ frame.first_arg = {}
  ELSE FALSE

\* frame_state.is_cmp(left, right) and is_not_cmp: "True", "False" or
\* "bool" when identity is not known
is_cmp(left, right, is_not) ==
  IF left \in AMBIGUOUS_OR_EMPTY \/ right \in AMBIGUOUS_OR_EMPTY THEN "bool"
  ELSE IF left # right THEN bool_const(is_not)
  ELSE IF left = None THEN bool_const(~is_not)
  ELSE "bool"

\* a variant that takes the first argument of a class method as any value
expand_bool_result_structural(m, left, right, is_not, frame) ==
  LET added == {[data |-> is_cmp(x, y, is_not),
                 source_set |-> {<<"x", x>>, <<"y", y>>},
                 where |-> m.st.node] :
                  <<x, y>> \in Data(m, left) \X Data(m, right)}
      m1 == NewVariable(m, {<<a.data, a.where>> : a \in added})
  IN [m |-> m1, ret |-> Len(m1.vars), added |-> added]

\* VirtualMachine.expand_bool_result(node, left, right, name,
\* maybe_predicate): the result variable and the bindings added, with the
\* source set of each
expand_bool_result(m, left, right, is_not, frame) ==
  IF \/ _is_classmethod_cls_arg(m, left, frame)
     \/ _is_classmethod_cls_arg(m, right, frame)
  THEN LET m1 == NewVariable(m, {<<Unsolvable, m.st.node>>})
       IN [m |-> m1, ret |-> Len(m1.vars), added |-> {}]
  ELSE LET added == {[data |-> is_cmp(x, y, is_not),
                      source_set |-> {<<"x", x>>, <<"y", y>>},
                      where |-> m.st.node] :
                       <<x, y>> \in Data(m, left) \X Data(m, right)}
           m1 == NewVariable(m, {<<a.data, a.where>> : a \in added})
       IN [m |-> m1, ret |-> Len(m1.vars), added |-> added]

\* a variant that gives every comparison a bool
cmp_always_bool(op_arg) == TRUE

\* VirtualMachine._cmp_is_always_supported(op_arg)
_cmp_is_always_supported(op_arg) == op_arg \in CMP_ALWAYS_SUPPORTED

\* the name of a relational comparison
cmp_rel_name(op_arg) ==
  CASE op_arg = CMP_LT -> "LT"
    [] op_arg = CMP_LE -> "LE"
    [] op_arg = CMP_EQ -> "EQ"
    [] op_arg = CMP_NE -> "NE"
    [] op_arg = CMP_GT -> "GT"
    [] op_arg = CMP_GE -> "GE"

\* the variable made last is the result of the comparison
new_result(m) == [m |-> m, ret |-> Len(m.vars), lookups |-> <<>>, added |-> {}]

\* VirtualMachine._compare_op(state, op_arg), the switch over op_arg: the
\* machine with the result variable ret, the attributes looked up by in /
\* not in and the bindings added by is / is not
compare_switch(m1, x, y, op_arg, frame, origins) ==
  CASE op_arg \in CMP_LT..CMP_GE ->
         [lookups |-> <<>>, added |-> {}]
           @@ _cmp_rel(m1, cmp_rel_name(op_arg), x, y, origins)
    [] op_arg \in {CMP_IS, CMP_IS_NOT} ->
         [lookups |-> <<>>]
           @@ expand_bool_result(m1, x, y, op_arg = CMP_IS_NOT, frame)
    [] op_arg \in {CMP_IN, CMP_NOT_IN} ->
         [added |-> {}] @@ _cmp_in(m1, x, y, op_arg = CMP_IN)
    [] op_arg = CMP_EXC_MATCH ->
         new_result(to_variable(_replace_abstract_exception(m1, y), "bool",
                                m1.st.node))

\* VirtualMachine._compare_op(state, op_arg), after the switch: a bool is
\* added to a result without bindings of a comparison that is always
\* supported, and the result is pushed
compare_push(r, op_arg) ==
  [raised |-> FALSE,
   m |-> [(IF r.m.vars[r.ret] = {} /\ _cmp_is_always_supported(op_arg)
           THEN AddBinding(r.m, r.ret, "bool", r.m.st.node)
           ELSE r.m) EXCEPT !.st = push(@, r.ret)],
   lookups |-> r.lookups, added |-> r.added]

\* VirtualMachine._compare_op(state, op_arg): raised when the argument is
\* invalid, else the machine with the result pushed
_compare_op(m, op_arg, frame, origins) ==
  IF op_arg \notin CMP_LT..CMP_EXC_MATCH
  THEN [raised |-> TRUE, m |-> m, lookups |-> <<>>, added |-> {}]
  ELSE compare_push(compare_switch([m EXCEPT !.st = popn(@, 2)],
                                   peek(m.st, 2), top(m.st), op_arg, frame,
                                   origins),
                    op_arg)

byte_COMPARE_OP(m, op, frame, origins) == _compare_op(m, op.arg, frame, origins)

\* VirtualMachine.import_module(name, full_name, level): the loader finds
\* the module or not
import_module(found) == IF found THEN "module" ELSE None

byte_IMPORT_NAME(m, op, found, ignore) ==
  LET m1 == [m EXCEPT !.st = popn(@, 2)]
      module == import_module(found)
  IN IF ignore THEN push_new(m1, Unsolvable)
     ELSE IF module = None
     THEN push_new(errorlog_add(m1, Diag("import-error", op.arg)), Unsolvable)
     ELSE push_new(m1, module)

\* load_attr_noerror(state, module, name): an unsolvable module has every
\* attribute, a module found has the attribute or not
byte_IMPORT_FROM(m, op, found, ignore) ==
  LET module == top(m.st)
      has == {d \in Data(m, module) : d \in AMBIGUOUS_OR_EMPTY \/ found}
  IN IF ignore THEN push_new(m, Unsolvable)
     ELSE IF has = {}
     THEN push_new(errorlog_add(m, Diag("import-error", op.arg)), Unsolvable)
     ELSE LET m1 == NewVariable(m, {<<IF d \in AMBIGUOUS_OR_EMPTY
                                      THEN Unsolvable ELSE "int",
                                      m.st.node>> : d \in has})
          IN [m1 EXCEPT !.st = push(@, Len(m1.vars))]

\* the names a module found defines, as mod.items()
ModuleItems == {"q", "_p", "__d"}

RECURSIVE store_items(_, _)
store_items(m, names) ==
  IF names = {} THEN m
  ELSE LET n == CHOOSE n \in names : TRUE
           v == to_variable(m, "int", m.st.node)
       IN store_items(
            IF leading_underscores(n) = 0
            THEN _store_value(v, n, Len(v.vars), TRUE) ELSE m,
            names \ {n})

byte_IMPORT_STAR(m, op) ==
  LET mod == top(m.st)
      m1 == [m EXCEPT !.st = pop(@)]
  IN IF Data(m, mod) \subseteq {Unknown, Unsolvable}
     THEN [m1 EXCEPT !.wild = TRUE]
     ELSE store_items(m1, ModuleItems)

\* VirtualMachine.get_var_name(var): "" for None
get_var_name(m, var) ==
  IF \E p \in m.vnames : p[1] = var
  THEN (CHOOSE p \in m.vnames : p[1] = var)[2]
  ELSE ""

\* VirtualMachine._store_new_var_in_local(state, var, new_var)
_store_new_var_in_local(m, var, new_var) ==
  LET varname == get_var_name(m, var)
  IN IF varname = "" \/ m.locals[varname] = 0 THEN m
     ELSE forward_cfg_node(_store_value(forward_cfg_node(m), varname, new_var, TRUE))

\* a narrowing that drops the bindings from the variable itself
narrow_in_place(m, var) == [m EXCEPT !.vars[var] = {b \in @ : b[1] # None}]

\* VirtualMachine._narrow(state, var, pred) with pred "is not None"
_narrow(m, var) ==
  LET keep == {b \in m.vars[var] : b[1] # None}
      data == {b[1] : b \in keep}
  IN IF data = Data(m, var) THEN m
     ELSE LET m1 == NewVariable(m, {<<d, m.st.node>> : d \in data})
          IN _store_new_var_in_local(m1, var, Len(m1.vars))

\* function.call_function on a function value: what the call returns
call_result(func) ==
  CASE func = "f" -> "int"
    [] func = "noreturn" -> NoReturn
    [] func = "assertIsNotNone" -> None
    [] func = "Aw.__await__" -> "Aw"
    [] func = "AwGen.__await__" -> "Generator"
    [] func = "AwCoro.__await__" -> "Coroutine"
    [] func = "AwAw.__await__" -> "AwGen"
    [] OTHER -> Unsolvable

\* VirtualMachine.call_function_with_state(state, funcv, posargs): the
\* result variable is the last variable of the machine returned when narrow
\* is not taken; ret names it
call_function_with_state(m, funcv, posargs) ==
  LET ret == {call_result(d) : d \in Data(m, funcv)}
      m1 == forward_cfg_node(
              IF ret = {NoReturn} THEN [m EXCEPT !.st = set_why(@, "NoReturn")]
              ELSE m)
      m2 == NewVariable(m1, {<<d, m1.st.node>> : d \in ret})
      m3 == IF Data(m, funcv) = {"assertIsNotNone"} /\ Len(posargs) = 1
            THEN _narrow(m2, posargs[1]) ELSE m2
  IN [m |-> m3, ret |-> Len(m2.vars)]

\* VirtualMachine.call_function_from_stack(state, num, None, None)
call_function_from_stack(m, num) ==
  LET posargs == topn(m.st, num)
      func == peek(m.st, num + 1)
      r == call_function_with_state([m EXCEPT !.st = popn(@, num + 1)],
                                    func, posargs)
  IN [r.m EXCEPT !.st = push(@, r.ret)]

byte_CALL_FUNCTION(m, op) == call_function_from_stack(m, op.arg)

\* VirtualMachine._get_iter(state, seq) followed by
\* self._call(state, itr, "__next__", ()): the data next() returns, and the
\* attribute errors recorded for the values that cannot be iterated
iter_next(m, seq) ==
  LET ds == Data(m, seq)
      anyiter == \E d \in ds : has_iter(d) \/ d \in AMBIGUOUS_OR_EMPTY
      anyget == \E d \in ds : has_getitem(d)
      missing == {d \in ds : ~has_getitem(d) /\ d \notin AMBIGUOUS_OR_EMPTY}
      RECURSIVE report(_, _)
      report(mm, left) ==
        IF left = {} THEN mm
        ELSE LET d == CHOOSE d \in left : TRUE
             IN report(IF HasCombination1(mm, seq, d)
                       THEN errorlog_add(mm, Diag("attribute-error", d))
                       ELSE mm, left \ {d})
  IN IF anyiter
     THEN [m |-> m,
           data |-> IF \E d \in ds : has_iter(d) THEN "elem" ELSE Unsolvable]
     ELSE [m |-> IF report_errors THEN report(m, missing) ELSE m,
           data |-> IF anyget THEN "elem" ELSE Unsolvable]

\* the elements of the literal sequences, by position
ItemNames == <<"e1", "e2", "e3", "e4">>

\* VirtualMachine._get_literal_sequence(data): the elements of a literal
\* tuple or list (<<>> also for a value that is no literal sequence)
_get_literal_sequence(data) == SubSeq(ItemNames, 1, literal_len(data))

\* ctx.convert.build_list(node, content): a list of the elements given
build_list(content) ==
  IF content = <<>> THEN "list[]"
  ELSE << <<"list[e1]", "list[e1,e2]", "list[e1,e2,e3]", "list[e1,e2,e3,e4]">>,
          <<"list[e2]", "list[e2,e3]", "list[e2,e3,e4]">>,
          <<"list[e3]", "list[e3,e4]">>,
          <<"list[e4]">> >>[CHOOSE k \in DOMAIN ItemNames :
                              ItemNames[k] = content[1]][Len(content)]

\* ctx.convert.build_list_of_type(node, var)
build_list_of_type(data) ==
  IF data = Unsolvable THEN "List[Any]" ELSE "List[elem]"

\* VirtualMachine._restructure_tuple(state, tup, pre, post)
_restructure_tuple(tup, pre, post) ==
  LET before == SubSeq(tup, 1, pre)
      after == IF post > 0 THEN SubSeq(tup, Len(tup) - post + 1, Len(tup))
               ELSE <<>>
      rest == IF post > 0 THEN SubSeq(tup, pre + 1, Len(tup) - post)
              ELSE SubSeq(tup, pre + 1, Len(tup))
  IN before \o << build_list(rest) >> \o after

\* the loop over reversed(values): a new variable is pushed for each of the
\* values i, i - 1, ..., 1, an empty one for a value without bindings
RECURSIVE push_values(_, _, _)
push_values(m, values, i) ==
  IF i = 0 THEN m
  ELSE LET m1 == NewVariable(m, {<<d, m.st.node>> :
                                   d \in IF values[i] = {} THEN {Empty}
                                         ELSE values[i]})
       IN push_values([m1 EXCEPT !.st = push(@, Len(m1.vars))], values, i - 1)

RECURSIVE log_bad_unpacking(_, _, _)
log_bad_unpacking(m, lens, count) ==
  IF lens = {} THEN m
  ELSE LET l == CHOOSE l \in lens : \A k \in lens : l <= k
       IN log_bad_unpacking(
            errorlog_add(m, [kind |-> "bad-unpacking", what |-> l,
                             expected |-> count]),
            lens \ {l}, count)

\* VirtualMachine._unpack_sequence(state, n_before, n_after)
_unpack_sequence(m, n_before, n_after) ==
  LET seq == top(m.st)
      m0 == [m EXCEPT !.st = pop(@)]
      has_slurp == n_after > -1
      count == n_before + n_after + 1
      ds == Data(m, seq)
      \* "if tup": a literal sequence that is not empty
      literal == {d \in ds : literal_len(d) > 0}
      fits == {d \in literal : IF has_slurp THEN literal_len(d) >= count
                               ELSE literal_len(d) = count}
      bad == literal \ fits
      nontuple == ds \ fits
      m1 == log_bad_unpacking(m0, {literal_len(d) : d \in bad}, count)
      m2 == NewVariable(m1, {<<d, m1.st.node>> : d \in nontuple})
      nx == iter_next(m2, Len(m2.vars))
      options ==
        {IF has_slurp
         THEN _restructure_tuple(_get_literal_sequence(d), n_before, n_after)
         ELSE _get_literal_sequence(d) : d \in fits}
        \cup (IF nontuple # {}
              THEN {[i \in 1..count |->
                       IF has_slurp /\ i = n_before + 1
                       THEN build_list_of_type(nx.data) ELSE nx.data]}
              ELSE {})
      m3 == IF nontuple # {} THEN nx.m ELSE m2
  \* zip(*options) of no option is empty: nothing is pushed
  IN IF options = {} THEN m3
     ELSE push_values(m3, [i \in 1..count |-> {o[i] : o \in options}], count)

byte_UNPACK_SEQUENCE(m, op) == _unpack_sequence(m, op.arg, -1)

byte_UNPACK_EX(m, op) == _unpack_sequence(m, op.arg % 256, op.arg \div 256)

\* Variable.Filter(node, strict=False): the bindings visible at the node
Filter(m, v, node) == {b \in m.vars[v] : is_reachable(m.edg, b[2], node)}

\* a variant that reports a name error whenever the filter drops a binding
load_closure_cell_reports_filtered(m, op, check_bindings) ==
  LET cell == m.cells[op.arg]
      visible_bindings == Filter(m, cell, m.st.node)
      m1 == IF check_bindings /\ visible_bindings # m.vars[cell]
            THEN errorlog_add(m, Diag("name-error", op.arg)) ELSE m
      m2 == IF visible_bindings # m.vars[cell]
            THEN LET n == NewVariable(m1,
                            IF visible_bindings # {}
                            THEN {<<b[1], m.st.node>> : b \in visible_bindings}
                            ELSE {<<Unsolvable, EntryNode>>})
                 IN [n EXCEPT !.cells[op.arg] = Len(n.vars)]
            ELSE m1
  IN loaded(m2, op.arg, m2.cells[op.arg])

\* VirtualMachine.load_closure_cell(state, op, check_bindings)
load_closure_cell(m, op, check_bindings) ==
  LET cell == m.cells[op.arg]
      m1 == IF check_bindings /\ m.vars[cell] = {}
            THEN errorlog_add(m, Diag("name-error", op.arg)) ELSE m
      visible_bindings == Filter(m, cell, m.st.node)
      m2 == IF visible_bindings # m.vars[cell]
            THEN LET n == NewVariable(m1,
                            IF visible_bindings # {}
                            THEN {<<b[1], m.st.node>> : b \in visible_bindings}
                            ELSE {<<Unsolvable, EntryNode>>})
                 IN [n EXCEPT !.cells[op.arg] = Len(n.vars)]
            ELSE m1
  IN loaded(m2, op.arg, m2.cells[op.arg])

byte_LOAD_CLOSURE(m, op) == load_closure_cell(m, op, FALSE)

byte_LOAD_DEREF(m, op) == load_closure_cell(m, op, TRUE)

\* a store that makes the value popped the cell
store_deref_rebinds(m, op) ==
  LET value == top(m.st)
      m1 == forward_cfg_node([m EXCEPT !.st = pop(@)])
  IN forward_cfg_node([m1 EXCEPT !.cells[op.arg] = value])

byte_STORE_DEREF(m, op) ==
  LET value == top(m.st)
      m1 == forward_cfg_node([m EXCEPT !.st = pop(@)])
      m2 == PasteVariable(m1, m1.cells[op.arg], value, m1.st.node)
  IN forward_cfg_node(m2)

byte_DELETE_DEREF(m, op) ==
  LET m0 == to_variable(m, Deleted, m.st.node)
      value == Len(m0.vars)
      m1 == forward_cfg_node(m0)
      m2 == PasteVariable(m1, m1.cells[op.arg], value, m1.st.node)
  IN forward_cfg_node(m2)

\* Variable.AssignToNewVariable(node)
AssignToNewVariable(m, v, node) ==
  NewVariable(m, {<<b[1], node>> : b \in m.vars[v]})

\* byte_YIELD_VALUE with frame.check_return off
byte_YIELD_VALUE(m, op) ==
  LET ret == top(m.st)
      m1 == AssignToNewVariable([m EXCEPT !.st = pop(@)], m.yld, m.st.node)
      value == Len(m1.vars)
      m2 == PasteVariable(m1, value, ret, m.st.node)
  IN push_new([m2 EXCEPT !.yld = value], Unsolvable)

(***************************************************************************)
(* run_instruction and run_frame.                                          *)
(***************************************************************************)
\* what a handler learns from outside the interpreter
Envs == [strict : BOOLEAN, found : BOOLEAN, ignore : BOOLEAN]
NoEnv == [strict |-> TRUE, found |-> TRUE, ignore |-> FALSE]

\* the instruction names with a byte_<name> method
Handlers ==
  {"LOAD_CONST", "POP_TOP", "DUP_TOP", "RETURN_VALUE", "LOAD_NAME",
   "LOAD_FAST", "LOAD_GLOBAL", "STORE_NAME", "SETUP_EXCEPT", "SETUP_FINALLY",
   "BEGIN_FINALLY", "CALL_FINALLY", "POP_BLOCK", "POP_EXCEPT", "END_FINALLY",
   "RAISE_VARARGS", "JUMP_FORWARD", "POP_JUMP_IF_FALSE", "COMPARE_OP",
   "BINARY_ADD", "BINARY_SUBSCR", "IMPORT_NAME", "IMPORT_FROM",
   "IMPORT_STAR", "CALL_FUNCTION", "UNPACK_SEQUENCE", "LOAD_CLOSURE", "LOAD_DEREF",
   "STORE_DEREF", "YIELD_VALUE", "JUMP_ABSOLUTE", "RERAISE"}

\* a run_instruction that hands on the state as the handler returned it
run_instruction_unmapped(hm) == hm

\* a run_instruction that maps 'reraise' only
run_instruction_reraise_only(hm) ==
  IF hm.st.why = "reraise"
  THEN [hm EXCEPT !.st = set_why(@, "exception")]
  ELSE hm

\* VirtualMachine.run_instruction(op, state), for an instruction that has a
\* handler: hm is the machine bytecode_fn(state, op) returns
run_instruction(hm) ==
  IF hm.st.why \in {"reraise", "NoReturn"}
  THEN [hm EXCEPT !.st = set_why(@, "exception")]
  ELSE hm

\* the machine becomes the state of the model
Commit(m) ==
  /\ state' = m.st
  /\ variables' = m.vars
  /\ nnodes' = m.nn
  /\ edges' = m.edg
  /\ errorlog' = m.log
  /\ states' = m.states
  /\ targets' = m.targets
  /\ f_locals' = m.locals
  /\ f_globals' = m.globals
  /\ cells' = m.cells
  /\ yield_variable' = m.yld
  /\ wildcard' = m.wild
  /\ var_names' = m.vnames

\* del frame.states[target] for every target the block registered; ok is
\* FALSE when a target has no pending state left (KeyError)
RECURSIVE del_targets(_, _, _)
del_targets(sts, ts, i) ==
  IF i > Len(ts) THEN [ok |-> TRUE, states |-> sts]
  ELSE IF sts[ts[i]] = NoState THEN [ok |-> FALSE, states |-> sts]
  ELSE del_targets([sts EXCEPT ![ts[i]] = NoState], ts, i + 1)

\* run_frame, a block that ended with a signal: "if
\* finally_tracker.check_early_exit(state)", the targets of block b are
\* deleted
early_exit(m, b) ==
  IF m.st.why # NoWhy /\ check_early_exit(m.st)
  THEN del_targets(m.states, m.targets[b], 1)
  ELSE [ok |-> TRUE, states |-> m.states]

\* store_jump for each of the targets, in order
RECURSIVE store_jumps(_, _, _)
store_jumps(m, ts, i) ==
  IF i > Len(ts) THEN m ELSE store_jumps(store_jump(m, ts[i]), ts, i + 1)

\* ---- vm.frames ----------------------------------------------------------
\* a frame: its code object and how it came to be run
Frame(c, via) == [f_code |-> c, via |-> via]

\* vm.frame is None
NoFrame == [f_code |-> 0, via |-> "none"]

\* VirtualMachine.push_frame(frame)
push_frame(fs, f) == [frames |-> Append(fs, f), frame |-> f]

\* a pop_frame that takes the oldest frame off the stack
pop_frame_oldest(fs, cur, f) ==
  IF fs = <<>> THEN [frames |-> fs, frame |-> cur, raised |-> "IndexError"]
  ELSE IF fs[1] # f
  THEN [frames |-> Tail(fs), frame |-> cur, raised |-> "AssertionError"]
  ELSE [frames |-> Tail(fs), raised |-> "none",
        frame |-> IF Tail(fs) = <<>> THEN NoFrame ELSE fs[Len(fs)]]

\* VirtualMachine.pop_frame(frame), cur being vm.frame: frames.pop(), the
\* assertion that the popped frame is the given one, then vm.frame
pop_frame(fs, cur, f) ==
  IF fs = <<>> THEN [frames |-> fs, frame |-> cur, raised |-> "IndexError"]
  ELSE LET popped == fs[Len(fs)]
           rest == SubSeq(fs, 1, Len(fs) - 1)
       IN IF popped # f
          THEN [frames |-> rest, frame |-> cur, raised |-> "AssertionError"]
          ELSE [frames |-> rest, raised |-> "none",
                frame |-> IF rest = <<>> THEN NoFrame ELSE rest[Len(rest)]]

\* a run_frame call in progress: its frame and vm.frames as it found them
Running(f, found) == [frame |-> f, found |-> found]

\* run_frame begins with its frame f: push_frame(f)
run_frame_enter(f) ==
  /\ frames' = push_frame(frames, f).frames
  /\ vm_frame' = push_frame(frames, f).frame
  /\ running' = Append(running, Running(f, frames))

\* the innermost run_frame call reaches its pop_frame: it returns, or the
\* assertion of pop_frame or one after it (raised) fails and AssertionError
\* leaves the call
run_frame_leave(raised) ==
  LET r == running[Len(running)]
      p == pop_frame(frames, vm_frame, r.frame)
  IN /\ frames' = p.frames
     /\ vm_frame' = p.frame
     /\ running' = SubSeq(running, 1, Len(running) - 1)
     /\ unwound' = (unwound \/ p.raised # "none" \/ raised # "none")

\* an exception leaves the innermost run_frame call before its pop_frame,
\* and then every run_frame call around it: run_frame has no handler, and
\* neither have resume_frame and run_bytecode, which call it
run_frame_raise ==
  /\ running' = <<>>
  /\ unwound' = TRUE
  /\ UNCHANGED <<frames, vm_frame>>

\* VirtualMachine.remaining_depth / is_at_maximum_depth
remaining_depth(fs, max) == max - Len(fs)
is_at_maximum_depth(fs, max) == Len(fs) > max

\* a make_frame that never detects recursion
make_frame_unchecked(fs, c) == [raised |-> "none", frame |-> c, logged |-> <<>>]

\* VirtualMachine.make_frame(node, code, ...): the recursion check, then the
\* Frame; nothing is recorded in the error log
make_frame(fs, c) ==
  IF \E i \in DOMAIN fs : fs[i].f_code = c
  THEN [raised |-> "VirtualMachineRecursionError", frame |-> 0, logged |-> <<>>]
  ELSE [raised |-> "none", frame |-> c, logged |-> <<>>]

\* the largest depth run_program is given, the number of code objects that
\* can be called, and the number of frames the stack is explored up to
MaxDepthSetting == 2
NumCallCodes == 3
MaxFrames == 3

frame_vars == <<pyver, code, order, allowed_returns,
                f_builtins, return_variable, late,
                report_errors, maximum_depth, pending, suspended, call_last,
                applyVars>>

\* run_frame, the body of "for op in block" for one instruction and, when
\* the block ends with it, the code after the loop
Instruction(name, env, hm) ==
  /\ phase = "run"
  /\ CurOp.name = name
  /\   LET op == CurOp
           m1 == run_instruction(hm)
           pr == process(tracker, op, m1.st)
           m2 == IF pr.why # NoWhy
                 THEN [m1 EXCEPT !.st = set_why(@, pr.why)] ELSE m1
           ends == m2.st.why # NoWhy \/ ip = Len(CurBlock)
           del == early_exit(m2, blk)
           m3 == IF m2.st.why # NoWhy
                 THEN [m2 EXCEPT !.states = del.states]
                 ELSE IF ends /\ carry_on_to_next(op) /\ blk < Len(order)
                 THEN LET f == forward_cfg_node(m2)
                          mm == merge_into(f, f.states[blk + 1])
                      IN [mm EXCEPT !.states[blk + 1] = mm.st]
                 ELSE m2
       IN /\ Commit([m3 EXCEPT !.st = m2.st])
          /\ tracker' = pr.stack
          /\ trace' = Append(trace, <<blk, ip>>)
          /\ last' = [op |-> op, env |-> env, m |-> Machine, pre |-> state,
                      handler_why |-> hm.st.why, run_why |-> m1.st.why,
                      post |-> m2.st, logged |-> Len(hm.log) - Len(errorlog),
                      tracker_pre |-> tracker, new_why |-> pr.why,
                      ended |-> ends, blk |-> blk, ip |-> ip]
          /\ IF ~del.ok
             THEN /\ fault' = "KeyError" /\ phase' = "fault"
                  /\ run_frame_raise
                  /\ UNCHANGED <<blk, ip, can_return, return_nodes>>
             ELSE /\ fault' = fault
                  /\ UNCHANGED <<frames, vm_frame, running, unwound>>
                  /\ IF ends
                     THEN /\ phase' = "fetch" /\ blk' = blk + 1 /\ ip' = 1
                     ELSE /\ phase' = "run" /\ blk' = blk /\ ip' = ip + 1
                  /\ IF m2.st.why # NoWhy
                     THEN /\ can_return' =
                               (can_return \/ m2.st.why \in {"return", "yield"})
                          /\ return_nodes' = Append(return_nodes, m2.st.node)
                     ELSE UNCHANGED <<can_return, return_nodes>>
  /\ UNCHANGED frame_vars

\* a run_instruction that skips an instruction without a handler: it
\* records a diagnostic and rolls the state over to the next instruction
UnknownOpcode_skip ==
  /\ phase = "run"
  /\ CurOp.name \notin Handlers
  /\ errorlog' = Append(errorlog, Diag("unknown-opcode", CurOp.name))
  /\ trace' = Append(trace, <<blk, ip>>)
  /\ IF ip = Len(CurBlock)
     THEN phase' = "fetch" /\ blk' = blk + 1 /\ ip' = 1
     ELSE phase' = "run" /\ blk' = blk /\ ip' = ip + 1
  /\ last' = [op |-> CurOp, env |-> NoEnv, m |-> Machine, pre |-> state,
              handler_why |-> NoWhy, run_why |-> NoWhy,
              post |-> state, logged |-> 1, tracker_pre |-> tracker,
              new_why |-> NoWhy, ended |-> FALSE, blk |-> blk, ip |-> ip]
  /\ UNCHANGED <<state, states, targets, tracker, can_return, fault,
                 return_nodes, variables, f_locals, f_globals, yield_variable,
                 nnodes, edges, wildcard, var_names, cells, frames, vm_frame,
                 running, unwound>>
  /\ UNCHANGED frame_vars

\* run_instruction on an instruction without a handler: VirtualMachineError
\* leaves run_instruction and run_frame
UnknownOpcode ==
  /\ phase = "run"
  /\ CurOp.name \notin Handlers
  /\ fault' = "VirtualMachineError"
  /\ trace' = Append(trace, <<blk, ip>>)
  /\ phase' = "fault"
  /\ last' = [op |-> CurOp, env |-> NoEnv, m |-> Machine, pre |-> state,
              handler_why |-> NoWhy, run_why |-> NoWhy,
              post |-> NoState, logged |-> 0, tracker_pre |-> tracker,
              new_why |-> NoWhy, ended |-> FALSE, blk |-> blk, ip |-> ip]
  /\ run_frame_raise
  /\ UNCHANGED <<blk, ip, state, states, targets, tracker, can_return,
                 return_nodes, variables, f_locals, f_globals, yield_variable,
                 nnodes, edges, errorlog, wildcard, var_names, cells>>
  /\ UNCHANGED frame_vars

NoLast == [op |-> I("none"), env |-> NoEnv, m |-> NoState, pre |-> NoState,
           handler_why |-> NoWhy, run_why |-> NoWhy,
           post |-> NoState, logged |-> 0, tracker_pre |-> <<>>,
           new_why |-> NoWhy, ended |-> FALSE, blk |-> 0, ip |-> 0]

\* the variables that exist when the frame is run: the frame's return and
\* yield variables, the variable of x, the builtins E (an exception class)
\* and f (a function), the variable of the frame's cell, and the bound
\* method assertIsNotNone of a test class
InitVariables(xb) ==
  << {}, {}, {<<d, EntryNode>> : d \in xb}, {<<"E", EntryNode>>},
     {<<"f", EntryNode>>}, {<<"int", EntryNode>>},
     {<<"assertIsNotNone", EntryNode>>} >>

NoMembers == [n \in Names |-> 0]

\* the frame of code c about to be run, at position ph of run_frame
VmInit(c, place, xb, l, r, ph) ==
  /\ code = c
  /\ order = Codes[c].order
  /\ pyver = Codes[c].version
  /\ allowed_returns = IF "allowed_returns" \in DOMAIN Codes[c]
                       THEN Codes[c].allowed_returns ELSE NoAnnotation
  /\ phase = ph
  /\ blk = 1
  /\ ip = 1
  /\ state = NoState
  /\ states = [b \in DOMAIN Codes[c].order |-> NoState]
  /\ targets = [b \in DOMAIN Codes[c].order |-> <<>>]
  /\ tracker = <<>>
  /\ can_return = FALSE
  /\ return_nodes = <<>>
  /\ variables = InitVariables(xb)
  /\ return_variable = 1
  /\ yield_variable = 2
  /\ f_locals = [NoMembers EXCEPT
                   !["x"] = IF place \in {"locals", "locals+globals"}
                            THEN 3 ELSE 0]
  /\ f_globals = [NoMembers EXCEPT
                    !["x"] = CASE place \in {"globals", "globals+builtins"} -> 3
                               [] place = "locals+globals" -> 6
                               [] OTHER -> 0]
  /\ f_builtins = [NoMembers EXCEPT
                     !["x"] = CASE place = "builtins" -> 3
                                [] place = "globals+builtins" -> 6
                                [] OTHER -> 0,
                     !["_p"] = IF place = "builtins" THEN 6 ELSE 0,
                                    !["E"] = 4, !["f"] = 5,
                                    !["assertIsNotNone"] = 7]
  /\ cells = <<6>>
  /\ nnodes = 1
  /\ edges = {}
  /\ errorlog = <<>>
  /\ wildcard = FALSE
  /\ var_names = {}
  /\ late = l
  /\ report_errors = r
  /\ fault = "none"
  /\ last = NoLast
  /\ trace = <<>>

\* no frame is being interpreted
VmOff == VmInit(1, "locals", {"int"}, FALSE, FALSE, "off")

\* nothing has been called
NoCall == [kind |-> "none", code |-> 0, pre |-> <<>>, raised |-> "none",
           frame |-> 0, logged |-> <<>>, post |-> <<>>, at_max |-> FALSE]
CallOff ==
  /\ pending = 0
  /\ suspended = {}
  /\ call_last = NoCall
  /\ vm_frame = NoFrame
  /\ running = <<>>
  /\ unwound = FALSE

NoOut == [none |-> TRUE]
ApplyOff ==
  /\ fn_in = [fn |-> "none"]
  /\ fn_out = NoOut

InitVm ==
  /\ \E c \in DOMAIN Codes :
       \E place \in Codes[c].places, xb \in Codes[c].xs, l, r \in BOOLEAN :
         VmInit(c, place, xb, l, r, "start")
  /\ frames = <<>>
  /\ maximum_depth = MaxDepthSetting
  /\ CallOff
  /\ ApplyOff

\* run_frame: push_frame(frame) and the initial state of the first block
run_frame_begin ==
  /\ phase = "start"
  /\ run_frame_enter(Frame(code, "make_frame"))
  /\ states' = [states EXCEPT ![1] = FrameState(<<>>, <<>>, EntryNode, FALSE, NoWhy)]
  /\ phase' = "fetch"
  /\ UNCHANGED <<pyver, code, order, allowed_returns,
                 blk, ip, state, targets, tracker, can_return,
                 return_nodes, variables, f_locals, f_globals, f_builtins,
                 cells, return_variable, yield_variable, nnodes, edges,
                 errorlog, wildcard, var_names, late, report_errors, fault,
                 last, trace, maximum_depth, pending, suspended, call_last,
                 unwound, applyVars>>

\* run_frame: "for block in frame.f_code.order", a block with a pending state
BeginBlock ==
  /\ phase = "fetch"
  /\ blk <= Len(order)
  /\ states[blk] # NoState
  /\ state' = states[blk]
  /\ ip' = 1
  /\ phase' = "run"
  /\ UNCHANGED <<pyver, code, order, allowed_returns,
                 blk, states, targets, tracker, can_return,
                 return_nodes, variables, f_locals, f_globals, f_builtins,
                 cells, return_variable, yield_variable, nnodes, edges,
                 errorlog, wildcard, var_names, late, report_errors, frames,
                 fault, last, trace, callVars, applyVars>>

\* a loop over the blocks that stops at the first block nothing connects to
SkipBlock_stop ==
  /\ phase = "fetch"
  /\ blk <= Len(order)
  /\ states[blk] = NoState
  /\ blk' = Len(order) + 1
  /\ UNCHANGED <<pyver, code, order, allowed_returns,
                 phase, ip, state, states, targets, tracker,
                 can_return, return_nodes, variables, f_locals, f_globals,
                 f_builtins, cells, return_variable, yield_variable, nnodes,
                 edges, errorlog, wildcard, var_names, late, report_errors,
                 frames, fault, last, trace, callVars, applyVars>>

\* run_frame: a block nothing connects to is skipped
SkipBlock ==
  /\ phase = "fetch"
  /\ blk <= Len(order)
  /\ states[blk] = NoState
  /\ blk' = blk + 1
  /\ UNCHANGED <<pyver, code, order, allowed_returns,
                 phase, ip, state, states, targets, tracker,
                 can_return, return_nodes, variables, f_locals, f_globals,
                 f_builtins, cells, return_variable, yield_variable, nnodes,
                 edges, errorlog, wildcard, var_names, late, report_errors,
                 frames, fault, last, trace, callVars, applyVars>>

\* a run_frame that starts over with the first block after the last one
run_frame_again ==
  /\ phase = "fetch"
  /\ blk > Len(order)
  /\ blk' = 1
  /\ UNCHANGED <<pyver, code, order, allowed_returns,
                 phase, ip, state, states, targets, tracker,
                 can_return, return_nodes, variables, f_locals, f_globals,
                 f_builtins, cells, return_variable, yield_variable, nnodes,
                 edges, errorlog, wildcard, var_names, late, report_errors,
                 frames, fault, last, trace, callVars, applyVars>>

\* run_frame after the loop: pop_frame and the frame's return variable
run_frame_end ==
  /\ phase = "fetch"
  /\ blk > Len(order)
  /\ LET j == IF return_nodes = <<>> THEN [m |-> Machine, node |-> EntryNode]
              ELSE join_cfg_nodes(Machine, return_nodes)
         m1 == IF return_nodes = <<>>
               THEN AddBinding(j.m, return_variable, Unsolvable, EntryNode)
               ELSE IF can_return THEN j.m
               ELSE LET v == to_variable(j.m, NoReturn, j.node)
                    IN _set_frame_return(v, j.node, Len(v.vars))
         \* "assert not frame.return_variable.bindings", in both branches
         raised == IF /\ return_nodes = <<>> \/ ~can_return
                      /\ variables[return_variable] # {}
                   THEN "AssertionError" ELSE "none"
         m2 == IF raised = "none" THEN m1 ELSE j.m
     IN /\ run_frame_leave(raised)
        /\ phase' = IF raised = "none" THEN "done" ELSE "fault"
        /\ fault' = raised
        /\ variables' = m2.vars
        /\ nnodes' = m2.nn
        /\ edges' = m2.edg
  /\ UNCHANGED <<pyver, code, order, allowed_returns,
                 blk, ip, state, states, targets, tracker,
                 can_return, return_nodes, f_locals, f_globals, f_builtins,
                 cells, return_variable, yield_variable, errorlog, wildcard,
                 var_names, late, report_errors, last, trace,
                 maximum_depth, pending, suspended, call_last, applyVars>>

LOAD_CONST == Instruction("LOAD_CONST", NoEnv, byte_LOAD_CONST(Machine, CurOp))
POP_TOP == Instruction("POP_TOP", NoEnv, byte_POP_TOP(Machine, CurOp))
DUP_TOP == Instruction("DUP_TOP", NoEnv, byte_DUP_TOP(Machine, CurOp))
RETURN_VALUE == Instruction("RETURN_VALUE", NoEnv, byte_RETURN_VALUE(Machine, CurOp))
LOAD_NAME ==
  \E env \in Envs :
    Instruction("LOAD_NAME", env, byte_LOAD_NAME(Machine, CurOp, env.strict))
LOAD_FAST ==
  \E env \in Envs :
    Instruction("LOAD_FAST", env, byte_LOAD_FAST(Machine, CurOp, env.strict))
LOAD_GLOBAL ==
  \E env \in Envs :
    Instruction("LOAD_GLOBAL", env, byte_LOAD_GLOBAL(Machine, CurOp, env.strict))
STORE_NAME == Instruction("STORE_NAME", NoEnv, byte_STORE_NAME(Machine, CurOp))
SETUP_EXCEPT == Instruction("SETUP_EXCEPT", NoEnv, byte_SETUP_EXCEPT(Machine, CurOp))
SETUP_FINALLY == Instruction("SETUP_FINALLY", NoEnv, byte_SETUP_FINALLY(Machine, CurOp))
BEGIN_FINALLY == Instruction("BEGIN_FINALLY", NoEnv, byte_BEGIN_FINALLY(Machine, CurOp))
CALL_FINALLY == Instruction("CALL_FINALLY", NoEnv, byte_CALL_FINALLY(Machine, CurOp))
POP_BLOCK == Instruction("POP_BLOCK", NoEnv, byte_POP_BLOCK(Machine, CurOp))
POP_EXCEPT == Instruction("POP_EXCEPT", NoEnv, byte_POP_EXCEPT(Machine, CurOp))
END_FINALLY == Instruction("END_FINALLY", NoEnv, byte_END_FINALLY(Machine, CurOp))
RAISE_VARARGS == Instruction("RAISE_VARARGS", NoEnv, byte_RAISE_VARARGS(Machine, CurOp))
JUMP_FORWARD == Instruction("JUMP_FORWARD", NoEnv, byte_JUMP_FORWARD(Machine, CurOp))
POP_JUMP_IF_FALSE == Instruction("POP_JUMP_IF_FALSE", NoEnv, byte_POP_JUMP_IF_FALSE(Machine, CurOp))
\* the operands of the COMPARE_OP at hand
CompareOrigins == MachineOrigins(Machine, peek(state, 2), top(state))

COMPARE_OP ==
  /\ phase = "run"
  /\ CurOp.name = "COMPARE_OP"
  /\ CurOp.arg \in CMP_LT..CMP_EXC_MATCH
  /\ Instruction("COMPARE_OP", NoEnv,
                 byte_COMPARE_OP(Machine, CurOp, NoFunc, CompareOrigins).m)

\* _compare_op raises VirtualMachineError for an invalid argument
COMPARE_OP_invalid ==
  /\ phase = "run"
  /\ CurOp.name = "COMPARE_OP"
  /\ CurOp.arg \notin CMP_LT..CMP_EXC_MATCH
  /\ fault' = "VirtualMachineError"
  /\ trace' = Append(trace, <<blk, ip>>)
  /\ phase' = "fault"
  /\ last' = [op |-> CurOp, env |-> NoEnv, m |-> Machine, pre |-> state,
              handler_why |-> NoWhy, run_why |-> NoWhy,
              post |-> NoState, logged |-> 0, tracker_pre |-> tracker,
              new_why |-> NoWhy, ended |-> FALSE, blk |-> blk, ip |-> ip]
  /\ run_frame_raise
  /\ UNCHANGED <<blk, ip, state, states, targets, tracker, can_return,
                 return_nodes, variables, f_locals, f_globals, yield_variable,
                 nnodes, edges, errorlog, wildcard, var_names, cells>>
  /\ UNCHANGED frame_vars
BINARY_ADD == Instruction("BINARY_ADD", NoEnv, byte_BINARY_ADD(Machine, CurOp))
BINARY_SUBSCR ==
  Instruction("BINARY_SUBSCR", NoEnv, byte_BINARY_SUBSCR(Machine, CurOp))
IMPORT_NAME ==
  \E env \in Envs :
    Instruction("IMPORT_NAME", env, byte_IMPORT_NAME(Machine, CurOp, env.found, env.ignore))
IMPORT_FROM ==
  \E env \in Envs :
    Instruction("IMPORT_FROM", env, byte_IMPORT_FROM(Machine, CurOp, env.found, env.ignore))
IMPORT_STAR == Instruction("IMPORT_STAR", NoEnv, byte_IMPORT_STAR(Machine, CurOp))
CALL_FUNCTION == Instruction("CALL_FUNCTION", NoEnv, byte_CALL_FUNCTION(Machine, CurOp))
UNPACK_SEQUENCE == Instruction("UNPACK_SEQUENCE", NoEnv, byte_UNPACK_SEQUENCE(Machine, CurOp))
LOAD_CLOSURE == Instruction("LOAD_CLOSURE", NoEnv, byte_LOAD_CLOSURE(Machine, CurOp))
LOAD_DEREF == Instruction("LOAD_DEREF", NoEnv, byte_LOAD_DEREF(Machine, CurOp))
STORE_DEREF == Instruction("STORE_DEREF", NoEnv, byte_STORE_DEREF(Machine, CurOp))
YIELD_VALUE == Instruction("YIELD_VALUE", NoEnv, byte_YIELD_VALUE(Machine, CurOp))
JUMP_ABSOLUTE ==
  Instruction("JUMP_ABSOLUTE", NoEnv, byte_JUMP_ABSOLUTE(Machine, CurOp))
RERAISE == Instruction("RERAISE", NoEnv, byte_RERAISE(Machine, CurOp))

Init == InitVm

Next ==
  \/ run_frame_begin
  \/ BeginBlock
  \/ SkipBlock
  \/ run_frame_end
  \/ UnknownOpcode
  \/ LOAD_CONST
  \/ POP_TOP
  \/ DUP_TOP
  \/ RETURN_VALUE
  \/ LOAD_NAME
  \/ LOAD_FAST
  \/ LOAD_GLOBAL
  \/ STORE_NAME
  \/ SETUP_EXCEPT
  \/ SETUP_FINALLY
  \/ BEGIN_FINALLY
  \/ CALL_FINALLY
  \/ POP_BLOCK
  \/ POP_EXCEPT
  \/ END_FINALLY
  \/ RAISE_VARARGS
  \/ JUMP_FORWARD
  \/ POP_JUMP_IF_FALSE
  \/ COMPARE_OP
  \/ COMPARE_OP_invalid
  \/ BINARY_ADD
  \/ BINARY_SUBSCR
  \/ IMPORT_NAME
  \/ IMPORT_FROM
  \/ IMPORT_STAR
  \/ CALL_FUNCTION
  \/ UNPACK_SEQUENCE
  \/ LOAD_CLOSURE
  \/ LOAD_DEREF
  \/ STORE_DEREF
  \/ YIELD_VALUE
  \/ JUMP_ABSOLUTE
  \/ RERAISE

Spec == Init /\ [][Next]_vars

\* the position of run_frame: its phase, the block and the instruction
position == <<phase, blk, ip>>

\* run_frame moves on from a position it has not finished at; every step of
\* Next changes the position
MoveOn ==
  /\ phase \in {"start", "fetch", "run"}
  /\ \E ph \in {"fetch", "run", "done", "fault"} : phase' = ph
  /\ \E b \in {blk, blk + 1} : blk' = b
  /\ \E i \in {1, ip, ip + 1} : ip' = i

\* run_frame is a sequential loop: while it has not finished, its next step
\* is taken
SpecFair == Spec /\ WF_position(MoveOn)

(***************************************************************************)
(* SpecCall: the stack of frames.  The callers of make_frame, run_frame    *)
(* and resume_frame (run_bytecode, the function and generator objects) are *)
(* the environment: they may call any code object at any time.             *)
(***************************************************************************)
InitCall ==
  /\ VmOff
  /\ ApplyOff
  /\ CallOff
  /\ frames = <<>>
  /\ maximum_depth \in 0..MaxDepthSetting

\* a caller makes a frame for code c: make_frame(node, code, ...)
CallMakeFrame ==
  \E c \in 1..NumCallCodes :
    /\ pending = 0
    /\ Len(frames) < MaxFrames
    /\ LET r == make_frame(frames, c)
       IN /\ pending' = r.frame
          /\ call_last' = [kind |-> "make_frame", code |-> c, pre |-> frames,
                           raised |-> r.raised, frame |-> r.frame,
                           logged |-> r.logged, post |-> frames,
                           at_max |-> is_at_maximum_depth(frames, maximum_depth)]
    /\ UNCHANGED <<vmVars, applyVars, frames, maximum_depth, suspended, vm_frame,
                   running, unwound>>

\* run_frame(frame, node) begins: push_frame
CallRunFrame ==
  /\ pending # 0
  /\ run_frame_enter(Frame(pending, "make_frame"))
  /\ pending' = 0
  /\ UNCHANGED <<vmVars, applyVars, maximum_depth, suspended, call_last,
                 unwound>>

\* the innermost run_frame ends: pop_frame; the frame of a generator that
\* returned can be resumed later
CallFrameEnds ==
  \E generator \in BOOLEAN :
    /\ pending = 0
    /\ running # <<>>
    /\ run_frame_leave("none")
    /\ suspended' = IF generator /\ unwound' = unwound
                    THEN suspended \cup {running[Len(running)].frame.f_code}
                    ELSE suspended
    /\ UNCHANGED <<vmVars, applyVars, maximum_depth, pending, call_last>>

\* an exception leaves the run_frame calls in progress (VirtualMachineError
\* of run_instruction, KeyError of "del frame.states[target]"): no pop_frame
CallFrameRaises ==
  /\ pending = 0
  /\ running # <<>>
  /\ run_frame_raise
  /\ UNCHANGED <<vmVars, applyVars, maximum_depth, pending, suspended,
                 call_last>>

\* resume_frame(node, frame): run_frame on a frame made earlier
CallResumeFrame ==
  \E c \in suspended :
    /\ pending = 0
    /\ Len(frames) < MaxFrames
    /\ run_frame_enter(Frame(c, "resume_frame"))
    /\ suspended' = suspended \ {c}
    /\ call_last' = [kind |-> "resume_frame", code |-> c, pre |-> frames,
                     raised |-> "none", frame |-> c, logged |-> <<>>,
                     post |-> frames',
                     at_max |-> is_at_maximum_depth(frames, maximum_depth)]
    /\ UNCHANGED <<vmVars, applyVars, maximum_depth, pending, unwound>>

NextCall ==
  \/ CallMakeFrame
  \/ CallRunFrame
  \/ CallFrameEnds
  \/ CallFrameRaises
  \/ CallResumeFrame

SpecCall == InitCall /\ [][NextCall]_vars

(***************************************************************************)
(* SpecApply: one function of the machine applied to an input drawn from a *)
(* bounded set.                                                            *)
(***************************************************************************)
\* the deepest operand stack and the number of graph nodes drawn
MaxStack == 2
MaxOperandBindings == 2
NumGraphNodes == 3

\* FrameStates a RAISE_VARARGS can be run in, with its operand count
Stacks == UNION {[1..n -> {3, 4}] : n \in 0..MaxStack}
RaiseInputs ==
  {[fn |-> "byte_RAISE_VARARGS",
    st |-> FrameState(stack, <<>>, EntryNode, exc, NoWhy),
    op |-> A("RAISE_VARARGS", argc)] :
     <<stack, exc, argc>> \in
       {t \in Stacks \X BOOLEAN \X (0..2) : t[3] <= Len(t[1])}}

\* a binary operator and the data of the two bindings it is applied to
BinopNames == {"__add__", "__sub__", "__getitem__"}
BinopInputs ==
  {[fn |-> "_call_binop_on_bindings", name |-> name, x |-> x, y |-> y] :
     <<name, x, y>> \in BinopNames \X (Classes \cup AMBIGUOUS_OR_EMPTY)
                                  \X (Classes \cup AMBIGUOUS_OR_EMPTY)}

\* graphs over the nodes 1..NumGraphNodes: no edge, a chain, a chain with a
\* loop back to node 2, a fork at node 1
GraphNodes == 1..NumGraphNodes
Graphs ==
  { {},
    {<<i, i + 1>> : i \in 1..(NumGraphNodes - 1)},
    {<<i, i + 1>> : i \in 1..(NumGraphNodes - 1)} \cup {<<NumGraphNodes, 2>>},
    {<<1, i>> : i \in 2..NumGraphNodes} }

\* three bindings: binding 3 has no prerequisites, binding 2 has none or
\* depends on 3, binding 1 has an origin with up to two source sets over 2
\* and 3 and possibly a second origin, on node 1, that depends on 3
GraphInputs ==
  {[fn |-> "has_combination", edg |-> t[1],
    origins |-> << {Origin(t[2], t[3])} \cup t[4],
                   {Origin(t[5], t[6])},
                   {Origin(t[7], {{}})} >>,
    node |-> t[8], bindings |-> t[9]] :
     t \in Graphs \X GraphNodes
             \X {{{}}, {{2}}, {{3}}, {{2, 3}}, {{2}, {3}}}
             \X {{}, {Origin(1, {{3}})}}
             \X GraphNodes \X {{{}}, {{3}}}
             \X GraphNodes
             \X GraphNodes \X {{1}, {2}, {1, 2}, {2, 3}}}

\* the values of an operand variable: one or two bindings
OperandData ==
  {d \in SUBSET {"int", "str", "dict", Unsolvable} :
     Cardinality(d) \in 1..MaxOperandBindings}

\* call_binary_operator on an operand x whose bindings were made at node xn
\* and an operand y made at the entry node, from a state at node `node' of
\* a graph with the edges edg
CallBinaryInputs ==
  {[fn |-> "call_binary_operator", name |-> t[1],
    x |-> {<<d, t[3]>> : d \in t[2]}, y |-> {<<d, EntryNode>> : d \in t[4]},
    report |-> t[5], node |-> t[6], edg |-> t[7]] :
     t \in BinopNames \X OperandData \X (1..2) \X OperandData \X BOOLEAN
             \X (1..2) \X {{}, {<<1, 2>>}}}

\* the values of an object whose attribute is loaded
ObjectData ==
  {d \in SUBSET {"P", "Q", "int", "str", Unsolvable} :
     Cardinality(d) \in 1..MaxOperandBindings}

\* the origins of the bindings of a load_attr: the bindings of the object
\* were made at node xn, with no prerequisite or (derived) from a binding
\* "src" made there; the binding of the function was made at node fn from a
\* binding "fsrc" made there
AttrOrigins(xn, derived, fn) ==
  [b \in {"P", "Q", "int", "str", Unsolvable, "func", "src", "fsrc"} |->
     CASE b = "func" -> {Origin(fn, {{"fsrc"}})}
       [] b = "fsrc" -> {Origin(fn, {{}})}
       [] b = "src" -> {Origin(xn, {{}})}
       [] OTHER -> {Origin(xn, IF derived THEN {{"src"}} ELSE {{}})}]

\* load_attr of attr on obj from a state at node `node'; func is the set
\* holding the binding of the function of the frame, empty when the frame
\* has none
LoadAttrInputs ==
  {[fn |-> "load_attr", obj |-> {<<d, t[2]>> : d \in t[1]}, attr |-> t[4],
    callself |-> t[5], strict |-> t[6], func |-> t[7],
    origins |-> AttrOrigins(t[2], t[3], t[8]), node |-> t[9],
    edg |-> t[10]] :
     t \in ObjectData \X (1..2) \X BOOLEAN \X {"a", "__class__"}
             \X {NoCallself, {"P"}} \X BOOLEAN \X {{}, {"func"}} \X (1..2)
             \X (1..2) \X {{}, {<<1, 2>>}}}

\* the origins of the operands of a comparison: the bindings of x were made
\* at node xn, with no prerequisite or (derived) from a binding "src" made
\* there; the bindings of y were made at the entry node
CmpOrigins(xd, yd, xn, derived) ==
  [k \in ({"x"} \X xd) \cup ({"y"} \X yd) \cup {<<"src", "src">>} |->
     CASE k[1] = "x" ->
            {Origin(xn, IF derived THEN {{<<"src", "src">>}} ELSE {{}})}
       [] k[1] = "y" -> {Origin(EntryNode, {{}})}
       [] OTHER -> {Origin(xn, {{}})}]

\* the values of the operands of a comparison: one or two bindings
CmpData(pool) ==
  {d \in SUBSET pool : Cardinality(d) \in 1..MaxOperandBindings}

\* the function of the frame and the values of its first argument
CmpFrames ==
  {NoFunc,
   [func |-> "function", first_arg |-> {"cls"}],
   [func |-> "classmethod", first_arg |-> {"cls"}],
   [func |-> "__new__", first_arg |-> {"cls"}],
   [func |-> "classmethod", first_arg |-> NoFirstArg]}

CmpInput(op_arg, xd, yd, frame, xn, derived, node, edg) ==
  [fn |-> "_compare_op", op_arg |-> op_arg,
   x |-> {<<d, xn>> : d \in xd}, y |-> {<<d, EntryNode>> : d \in yd},
   frame |-> frame, origins |-> CmpOrigins(xd, yd, xn, derived),
   node |-> node, edg |-> edg]

\* _compare_op on the operands x and y from a state at node `node': the
\* orderings of constants and classes, in / not in of an item and a
\* sequence, is / is not in a function, a class method or __new__, an
\* exception match, and an argument that is no comparison
CompareInputs ==
  {CmpInput(t[1], t[2], t[3], NoFunc, t[4], t[5], t[6], t[7]) :
     t \in (CMP_LT..CMP_GE)
             \X CmpData({"const1", "const2", "conststr", "type", "int"})
             \X CmpData({"const1", "conststr", "type", "int"})
             \X (1..2) \X BOOLEAN \X (1..2) \X {{}, {<<1, 2>>}}}
  \cup
  {CmpInput(t[1], t[2], t[3], NoFunc, 1, FALSE, 1, {}) :
     t \in {CMP_IN, CMP_NOT_IN}
             \X CmpData({"int", "str"})
             \X CmpData({"FC", "iterable", "getitem_only", "int", "str",
                         Unsolvable})}
  \cup
  {CmpInput(t[1], t[2], t[3], t[4], 1, FALSE, 1, {}) :
     t \in {CMP_IS, CMP_IS_NOT}
             \X CmpData({"int", None, "cls", Unsolvable})
             \X CmpData({"int", None, "cls"})
             \X CmpFrames}
  \cup
  {CmpInput(t[1], {"E_instance"}, t[2], NoFunc, 1, FALSE, 1, {}) :
     t \in {CMP_EXC_MATCH, CMP_EXC_MATCH + 1}
             \X {{"E"}, {"int"}, {"E", "int"}}}

(***************************************************************************)
(* pytd: the nodes of the type declarations and ToType.  A node is a       *)
(* record with its class in the field node.                                *)
(***************************************************************************)
NamedType(name) == [node |-> "NamedType", name |-> name]
AnythingType == [node |-> "AnythingType", name |-> "typing.Any"]
GenericType(base_type, parameters) ==
  [node |-> "GenericType", name |-> base_type.name, base_type |-> base_type,
   parameters |-> parameters]
PytdClass(name) == [node |-> "Class", name |-> name]
ClassType(name, cls) == [node |-> "ClassType", name |-> name, cls |-> cls]
PytdFunction(name) == [node |-> "Function", name |-> name]
PytdModule(name) == [node |-> "Module", name |-> name]
PytdConstant(name, type) == [node |-> "Constant", name |-> name, type |-> type]
PytdAlias(name, type) == [node |-> "Alias", name |-> name, type |-> type]

\* isinstance(item, Type)
IsPytdType(item) ==
  item.node \in {"NamedType", "AnythingType", "GenericType", "ClassType"}

SINGLETON_TYPES == {"Ellipsis", "builtins.Ellipsis"}

\* pytd.ToType(item, allow_constants, allow_functions, allow_singletons):
\* the value returned, or NotImplementedError raised
ToType(item, allow_constants, allow_functions, allow_singletons) ==
  LET ret(v) == [raised |-> FALSE, value |-> v]
      no == [raised |-> TRUE, value |-> "NotImplementedError"]
  IN IF IsPytdType(item) THEN ret(item)
     ELSE IF item.node = "Module" THEN ret(item)
     ELSE IF item.node = "Class" THEN ret(ClassType(item.name, item))
     ELSE IF item.node = "Function" /\ allow_functions THEN ret(item)
     ELSE IF item.node = "Constant"
     THEN IF allow_singletons /\ item.name \in SINGLETON_TYPES
          THEN ret(item.type)
          ELSE IF item.type.name = "builtins.type"
          THEN IF item.type.node = "GenericType"
               THEN ret(item.type.parameters[1]) ELSE ret(AnythingType)
          ELSE IF \/ item.type.node = "AnythingType"
                  \/ item.type.name = "typing_extensions._SpecialForm"
                  \/ item.name = "typing_extensions.TypedDict"
          THEN ret(AnythingType)
          ELSE IF allow_constants THEN ret(item) ELSE no
     ELSE IF item.node = "Alias" THEN ret(item.type)
     ELSE no

\* the types, the declarations and the aliases ToType is applied to
PytdTypes ==
  {NamedType("builtins.int"), NamedType("builtins.ellipsis"),
   NamedType("builtins.type"), NamedType("typing_extensions._SpecialForm"),
   AnythingType, ClassType("C", PytdClass("C")),
   GenericType(NamedType("builtins.type"), <<NamedType("builtins.int")>>),
   GenericType(NamedType("builtins.type"),
               <<ClassType("C", PytdClass("C"))>>)}

PytdConstants ==
  {PytdConstant(n, t) :
     n \in {"x", "typing_extensions.TypedDict"}, t \in PytdTypes}
  \cup {PytdConstant("Ellipsis", NamedType("builtins.ellipsis"))}

PytdDeclarations ==
  PytdConstants
  \cup {PytdClass("C"), PytdClass("D"), PytdFunction("f"), PytdModule("m")}

PytdItems ==
  PytdTypes \cup PytdDeclarations
  \cup {PytdAlias("z", t) :
          t \in PytdTypes \cup PytdConstants
                 \cup {PytdFunction("f"), PytdModule("m")}}

ToTypeInputs ==
  {[fn |-> "ToType", item |-> t[1], allow_constants |-> t[2],
    allow_functions |-> t[3], allow_singletons |-> t[4]] :
     t \in PytdItems \X BOOLEAN \X BOOLEAN \X BOOLEAN}

\* the number of outer scopes a function's qualified name is resolved to
MaxScopes == 2

\* what run_frame gives the tracker: an instruction and the completion
\* signal of the state run_instruction returned for it
TrackerSteps ==
  {[op |-> I("SETUP_EXCEPT"), why |-> NoWhy],
   [op |-> I("END_FINALLY"), why |-> NoWhy],
   [op |-> I("END_FINALLY"), why |-> "exception"],
   [op |-> I("RETURN_VALUE"), why |-> "return"],
   [op |-> I("RAISE_VARARGS"), why |-> "exception"],
   [op |-> I("POP_JUMP_IF_FALSE"), why |-> "unsatisfiable"]}

\* a block that registers jump targets and ends with a signal: the targets
\* its instructions give store_jump (the blocks after block 1, the block),
\* whether a 'finally' block is on the block stack, the signal, and the
\* targets that have a pending state from an earlier block
MaxJumps == 2
JumpTargets == 2..(MaxJumps + 1)
EarlyExitInputs ==
  {[fn |-> "early_exit", jumps |-> t[1], finally |-> t[2], why |-> t[3],
    pending |-> t[4]] :
     t \in (UNION {[1..n -> JumpTargets] : n \in 1..MaxJumps}) \X BOOLEAN
             \X {"return", "exception", "unsatisfiable"}
             \X SUBSET JumpTargets}

\* the conditional jumps, the values the tested variable may hold, and
\* whether a state is already pending at the target
JumpHandlers ==
  {"JUMP_IF_TRUE_OR_POP", "JUMP_IF_FALSE_OR_POP", "JUMP_IF_TRUE",
   "JUMP_IF_FALSE", "POP_JUMP_IF_TRUE", "POP_JUMP_IF_FALSE"}
TestedData == {"True", "False", "bool"}
JumpIfInputs ==
  {[fn |-> "_jump_if", op |-> J(t[1], 2), data |-> t[2], pending |-> t[3]] :
     t \in JumpHandlers \X (SUBSET TestedData) \X BOOLEAN}

\* the instructions on a closure cell, the number of them applied in a
\* row, and the bindings of the cell when the frame is created: made at the
\* node 1, which reaches the node the frame runs at, or at the node 2 of a
\* frame that has finished, which does not
DerefOps == {"LOAD_CLOSURE", "LOAD_DEREF", "STORE_DEREF", "DELETE_DEREF"}
MaxDerefOps == 2
CellBindings == {<<"int", 1>>, <<"str", 2>>, <<Deleted, 2>>}
DerefInputs ==
  {[fn |-> "deref", ops |-> t[1], cell |-> t[2]] :
     t \in (UNION {[1..n -> DerefOps] : n \in 1..MaxDerefOps})
             \X SUBSET CellBindings}

\* the unpacking instructions with up to MaxTargets targets on either side
\* of a starred one, and the values unpacked: literal tuples of the lengths
\* 0 to 4 and an iterable of unknown length, up to two of them, or none
MaxTargets == 2
UnpackData ==
  {"tuple0", "tuple1", "tuple2", "tuple3", "tuple4", "iterable"}
UnpackOps ==
  {A("UNPACK_SEQUENCE", n) : n \in 1..(MaxTargets + 1)}
  \cup {A("UNPACK_EX", t[1] + 256 * t[2]) :
          t \in (0..MaxTargets) \X (0..MaxTargets)}
UnpackInputs ==
  {[fn |-> "_unpack_sequence", op |-> t[1], data |-> t[2]] :
     t \in UnpackOps \X {d \in SUBSET UnpackData : Cardinality(d) <= 2}}

\* the code objects that start with the setup of a try block (try/finally
\* and try/except for Python 3.7 and 3.8), the depth of the operand stack
\* and the block stack at entry, and whether a state is already pending at
\* the handler
SetupCodes == {8, 10, 11, 12}
SetupInputs ==
  {[fn |-> "setup", code |-> t[1], depth |-> t[2], blocks |-> t[3],
    pending |-> t[4]] :
     t \in SetupCodes \X (0..MaxStack) \X {<<>>, << Block("loop", 0) >>}
             \X BOOLEAN}

(***************************************************************************)
(* GET_AWAITABLE                                                           *)
(***************************************************************************)
\* match_var_against_type(..., coroutine_type / generator_type, ...)
IsCoroutine(data) == data \in {"Coroutine", Unsolvable}
IsGenerator(data) == data = "Generator"

\* the bound method get_attribute(node, b.data, "__await__", b) finds
\* ("": None)
await_method(data) ==
  LET c == get_attribute(data, "__await__")
  IN CASE c = "Aw" -> "Aw.__await__"
       [] c = "AwGen" -> "AwGen.__await__"
       [] c = "AwCoro" -> "AwCoro.__await__"
       [] c = "AwAw" -> "AwAw.__await__"
       [] OTHER -> ""

\* a conversion that leaves what __await__ returns as it is, generators
\* included
binding_case_leaves_generators(b, bad_bindings, is_top) ==
  IF b \notin bad_bindings THEN "coroutine"
  ELSE IF ~is_top THEN "awaited"
  ELSE IF IsGenerator(b[1]) THEN "generator"
  ELSE IF await_method(b[1]) = "" THEN "no __await__"
  ELSE "call __await__"

\* the branch _binding_to_coroutine takes for the binding b
binding_case(b, bad_bindings, is_top) ==
  IF b \notin bad_bindings THEN "coroutine"
  ELSE IF IsGenerator(b[1]) THEN "generator"
  ELSE IF ~is_top THEN "awaited"
  ELSE IF await_method(b[1]) = "" THEN "no __await__"
  ELSE "call __await__"

\* is_top: the parameter top of the source.
\* r: the machine, the bindings whose __await__ has been resolved and the
\* depth of the calls of _to_coroutine
PasteBinding(r, ret, b) == [r EXCEPT !.m.vars[ret] = @ \cup {b}]

RECURSIVE _to_coroutine(_, _, _)
RECURSIVE _binding_to_coroutine(_, _, _, _, _)
_binding_to_coroutine(r, b, bad_bindings, ret, is_top) ==
  LET case == binding_case(b, bad_bindings, is_top)
      pasted(sub) ==
        [m |-> [sub.m EXCEPT !.vars[ret] = @ \cup sub.m.vars[sub.ret]],
         awaited |-> r.awaited \o <<b>> \o sub.awaited,
         depth |-> IF sub.depth + 1 > r.depth THEN sub.depth + 1 ELSE r.depth]
      converted(c) == _to_coroutine(c.m, c.ret, FALSE)
      called(m1) == call_function_with_state(m1, Len(m1.vars), <<>>)
  IN CASE case = "generator" ->
            [r EXCEPT !.m = AddBinding(@, ret, "Coroutine", r.m.st.node)]
       [] case = "call __await__" ->
            pasted(converted(called(
              NewVariable(r.m, {<<await_method(b[1]), r.m.st.node>>}))))
       [] OTHER -> PasteBinding(r, ret, b)

\* "for b in obj.bindings: state = self._binding_to_coroutine(...)"
RECURSIVE each_binding_to_coroutine(_, _, _, _, _)
each_binding_to_coroutine(r, todo, bad_bindings, ret, is_top) ==
  IF todo = {} THEN r
  ELSE LET b == CHOOSE x \in todo : TRUE
       IN each_binding_to_coroutine(
            _binding_to_coroutine(r, b, bad_bindings, ret, is_top),
            todo \ {b}, bad_bindings, ret, is_top)

_to_coroutine(m, obj, is_top) ==
  LET bad_bindings == {b \in m.vars[obj] : ~IsCoroutine(b[1])}
      returned(r, ret) == [m |-> r.m, ret |-> ret, awaited |-> r.awaited,
                           depth |-> r.depth]
  IN IF bad_bindings = {}
     THEN [m |-> m, ret |-> obj, awaited |-> <<>>, depth |-> 1]
     ELSE returned(each_binding_to_coroutine(
                     [m |-> NewVariable(m, {}), awaited |-> <<>>, depth |-> 1],
                     m.vars[obj], bad_bindings, Len(m.vars) + 1, is_top),
                   Len(m.vars) + 1)

\* VirtualMachine._check_return: "return False  # overridden in analyze.py"
_check_return(m, actual, formal) == FALSE

byte_GET_AWAITABLE(m, op) ==
  LET pushed(c) ==
        IF ~_check_return(c.m, c.ret, "Awaitable")
        THEN [to_variable(c.m, Unsolvable, c.m.st.node)
                EXCEPT !.st = push(@, Len(c.m.vars) + 1)]
        ELSE [c.m EXCEPT !.st = push(@, c.ret)]
  IN pushed(_to_coroutine([m EXCEPT !.st = pop(@)], top(m.st), TRUE))

\* the values awaited: the bindings of the variable on top of the stack
MaxAwaited == 2
AwaitedData == {"Coroutine", "Generator", "Aw", "AwGen", "AwCoro", "AwAw",
                "int", Unsolvable}
AwaitInputs ==
  {[fn |-> "_to_coroutine", data |-> ds] :
     ds \in {x \in SUBSET AwaitedData :
               Cardinality(x) >= 1 /\ Cardinality(x) <= MaxAwaited}}

(***************************************************************************)
(* _check_defaults: the defaults of a new function against its annotations *)
(***************************************************************************)
MaxParams == 2
ParamNames == <<"a", "b", "c", "d">>
NoDefault == "nodefault"
Ellipsis == "Ellipsis"           \* ctx.convert.ellipsis
NoFailure == [failed |-> FALSE]

\* signature.has_param_annotations
has_param_annotations(method) ==
  \E i \in DOMAIN method.params : method.params[i].annot # NoAnnotation

IsPositional(p) == ~p.kwonly
get_positional_names(method) ==
  LET pos == SelectSeq(method.params, IsPositional)
  IN [i \in DOMAIN pos |-> pos[i].name]

\* positional_names.index(name); 0: ValueError
index_of(names, name) ==
  IF \E i \in DOMAIN names : names[i] = name
  THEN CHOOSE i \in DOMAIN names : names[i] = name
  ELSE 0

\* create_method_arguments(node, method, use_defaults=True): the default
\* where there is one, an unknown otherwise; keyword-only parameters are
\* passed by name
create_method_arguments(method) ==
  LET arg(p) == IF p.default = NoDefault THEN Unknown ELSE p.default
      pos == SelectSeq(method.params, IsPositional)
      kw == {method.params[i].name : i \in {j \in DOMAIN method.params :
                                              method.params[j].kwonly}}
      param(n) == method.params[index_of([i \in DOMAIN method.params |->
                                            method.params[i].name], n)]
  IN [posargs |-> [i \in DOMAIN pos |-> arg(pos[i])],
      namedargs |-> [n \in kw |-> arg(param(n))]]

\* the value passed for the i-th parameter
passed_value(method, args, i) ==
  IF method.params[i].kwonly THEN args.namedargs[method.params[i].name]
  ELSE args.posargs[index_of(get_positional_names(method),
                             method.params[i].name)]

\* method.match_args(node, args): the first parameter whose argument does
\* not match its annotation fails the call with InvalidParameters
match_args(method, args) ==
  LET bad == {i \in DOMAIN method.params :
                /\ method.params[i].annot # NoAnnotation
                /\ passed_value(method, args, i) \notin {Unsolvable, Unknown}
                /\ passed_value(method, args, i) # method.params[i].annot}
      first == CHOOSE i \in bad : \A j \in bad : i <= j
  IN IF bad = {} THEN NoFailure
     ELSE [failed |-> TRUE,
           bad_param |-> [name |-> method.params[first].name,
                          expected |-> method.params[first].annot],
           passed_args |-> [i \in DOMAIN method.params |->
                              <<method.params[i].name,
                                passed_value(method, args, i)>>]]

AnnotationTypeMismatch(expected, value, name) ==
  [kind |-> "annotation-type-mismatch", expected |-> expected,
   value |-> value, name |-> name]

\* the body of the except clause for the argument found in passed_args:
\* the diagnostic and the replacement of the bad default
replace_default(method, r, e, found) ==
  LET name == e.passed_args[found][1]
      value == e.passed_args[found][2]
      should_report == IF value = Ellipsis THEN ~method.has_empty_body
                       ELSE TRUE
      pos == index_of(get_positional_names(method), name)
  IN [r EXCEPT
        !.log = IF should_report
                THEN Append(@, AnnotationTypeMismatch(e.bad_param.expected,
                                                      value, name))
                ELSE @,
        !.replaced = Append(@, name),
        !.args = IF pos = 0
                 THEN [@ EXCEPT !.namedargs[name] = Unsolvable]
                 ELSE [@ EXCEPT !.posargs[pos] = Unsolvable]]

\* the position in passed_args of the argument called arg_name (0: none)
find_passed(e) ==
  IF \E k \in DOMAIN e.passed_args : e.passed_args[k][1] = e.bad_param.name
  THEN CHOOSE k \in DOMAIN e.passed_args :
         /\ e.passed_args[k][1] = e.bad_param.name
         /\ \A j \in DOMAIN e.passed_args :
              e.passed_args[j][1] = e.bad_param.name => k <= j
  ELSE 0

NewCheck(args) ==
  [calls |-> 0, log |-> <<>>, replaced |-> <<>>, args |-> args,
   raised |-> "none"]

\* a check that gives up at the first default it reports
check_defaults_stops_at_first(method) ==
  LET handled(r, e) ==
        IF ~e.failed THEN r
        ELSE IF find_passed(e) = 0 THEN [r EXCEPT !.raised = "AssertionError"]
        ELSE replace_default(method, r, e, find_passed(e))
      called(r) == handled([r EXCEPT !.calls = @ + 1],
                           match_args(method, r.args))
  IN IF ~has_param_annotations(method) THEN NewCheck(<<>>)
     ELSE called(NewCheck(create_method_arguments(method)))

\* "while needs_checking:" of _check_defaults
RECURSIVE check_again(_, _)
check_again(method, r) ==
  LET handled(r1, e) ==
        IF ~e.failed THEN r1
        ELSE IF find_passed(e) = 0 THEN [r1 EXCEPT !.raised = "AssertionError"]
        ELSE check_again(method, replace_default(method, r1, e, find_passed(e)))
  IN handled([r EXCEPT !.calls = @ + 1], match_args(method, r.args))

_check_defaults(method) ==
  IF ~has_param_annotations(method) THEN NewCheck(<<>>)
  ELSE check_again(method, NewCheck(create_method_arguments(method)))

\* the parameter lists of a function: positional parameters before the
\* keyword-only ones, and no positional parameter without default after one
\* with a default
RECURSIVE ParamLists(_)
ParamLists(n) ==
  IF n = 0 THEN {<<>>}
  ELSE {Append(ps, [name |-> ParamNames[n], annot |-> t[1], default |-> t[2],
                    kwonly |-> t[3]]) :
          ps \in ParamLists(n - 1),
          t \in {NoAnnotation, "int"} \X {NoDefault, "int", "str", Ellipsis}
                  \X BOOLEAN}
WellFormedParams(ps) ==
  \A i, j \in DOMAIN ps :
    i < j => /\ ps[i].kwonly => ps[j].kwonly
             /\ (~ps[j].kwonly /\ ps[i].default # NoDefault)
                  => ps[j].default # NoDefault
CheckDefaultsInputs ==
  {[fn |-> "_check_defaults", params |-> ps, has_empty_body |-> b] :
     ps \in {q \in UNION {ParamLists(n) : n \in 0..MaxParams} :
               WellFormedParams(q)},
     b \in BOOLEAN}

\* break and continue: the number of loops entered (none: the instruction
\* is outside of any loop), the try blocks entered inside the innermost
\* loop, the depth of the operand stack before the first loop and the number
\* of entries pushed after each block is entered
MaxLoops == 2
LoopInputs ==
  {[fn |-> "loop_exit", name |-> t[1], loops |-> t[2], inner |-> t[3],
    depth |-> t[4], grow |-> t[5]] :
     t \in {"BREAK_LOOP", "CONTINUE_LOOP"} \X (0..MaxLoops)
             \X {<<>>, <<"finally">>, <<"setup-except">>,
                  <<"finally", "setup-except">>}
             \X (0..MaxStack) \X (0..1)}

\* the number of instructions the tracker is followed over
MaxTrackerSteps == 4
TrackerInputs ==
  {[fn |-> "process", steps |-> s] :
     s \in UNION {[1..n -> TrackerSteps] : n \in 1..MaxTrackerSteps}}

ScopeLists ==
  UNION {[1..n -> [cls : BOOLEAN, defines : BOOLEAN]] : n \in 0..MaxScopes}

\* the frames of a name lookup: the SimpleFrame of the module, then at most
\* one function and the class bodies being built in it
SimpleFrame == [f_code |-> 1, via |-> "make_frame", func |-> NoFrameFunc]

FunctionFrames ==
  {[f_code |-> 1, via |-> "make_frame",
    func |-> FrameFunc("function", n, o, FALSE)] :
     <<o, n>> \in {t \in ScopeLists \X (1..(MaxScopes + 1)) :
                     t[2] \in {Len(t[1]), Len(t[1]) + 1}}}

ClassFrames ==
  {[f_code |-> 1, via |-> "make_frame",
    func |-> FrameFunc("class_builder", 0, <<>>, a)] : a \in BOOLEAN}

ClassFrameLists == UNION {[1..n -> ClassFrames] : n \in 0..2}

FrameStacks ==
  {<<SimpleFrame>> \o cs : cs \in ClassFrameLists}
  \cup {<<SimpleFrame, f>> \o cs :
          <<f, cs>> \in FunctionFrames \X ClassFrameLists}

\* the opcodes that load a name in a frame: class bodies and modules load
\* names, functions load fast locals and globals
NameOps(fs) ==
  IF frame_func(fs[Len(fs)]).kind = "function"
  THEN {"LOAD_FAST", "LOAD_GLOBAL"} ELSE {"LOAD_NAME"}

\* a lookup of x, placed in one of the stores or in none, in a frame on
\* top of a stack of frames, with or without late annotations
NameLookupInputs ==
  {[fn |-> "name_lookup", opname |-> t[2], place |-> t[3], late |-> t[4],
    frames |-> t[1]] :
     t \in {u \in FrameStacks
                    \X {"LOAD_NAME", "LOAD_FAST", "LOAD_GLOBAL"}
                    \X {"nowhere", "locals", "globals", "builtins"}
                    \X BOOLEAN : u[2] \in NameOps(u[1])}}

\* options.report_errors is drawn for the functions that read it
ReportOptions(in) ==
  IF \/ in.fn \in {"call_binary_operator", "load_attr"}
     \/ in.fn = "_compare_op" /\ in.op_arg \in {CMP_IN, CMP_NOT_IN}
  THEN BOOLEAN ELSE {TRUE}

InitApply ==
  /\ \/ fn_in \in RaiseInputs
     \/ fn_in \in BinopInputs
     \/ fn_in \in GraphInputs
     \/ fn_in \in CallBinaryInputs
     \/ fn_in \in LoadAttrInputs
     \/ fn_in \in CompareInputs
     \/ fn_in \in NameLookupInputs
     \/ fn_in \in ToTypeInputs
     \/ fn_in \in TrackerInputs
     \/ fn_in \in EarlyExitInputs
     \/ fn_in \in JumpIfInputs
     \/ fn_in \in DerefInputs
     \/ fn_in \in UnpackInputs
     \/ fn_in \in SetupInputs
     \/ fn_in \in LoopInputs
     \/ fn_in \in CheckDefaultsInputs
     \/ fn_in \in AwaitInputs
  /\ \E r \in ReportOptions(fn_in) :
       IF fn_in.fn = "name_lookup"
       THEN VmInit(1, fn_in.place, {"int"}, fn_in.late, r, "off")
       ELSE VmInit(IF fn_in.fn = "setup" THEN fn_in.code ELSE 1,
                   "locals", {"int"}, FALSE, r, "off")
  /\ CallOff
  /\ frames = IF fn_in.fn = "name_lookup" THEN fn_in.frames ELSE <<>>
  /\ maximum_depth = MaxDepthSetting
  /\ fn_out = NoOut

\* run_instruction on a RAISE_VARARGS: what the handler returns (handler)
\* and the state after run_instruction has mapped the signal (st)
ApplyRaise ==
  /\ fn_in.fn = "byte_RAISE_VARARGS"
  /\ fn_out = NoOut
  /\ LET out(hm) == [handler |-> hm.st, st |-> run_instruction(hm).st]
     IN fn_out' = out(byte_RAISE_VARARGS([st |-> fn_in.st], fn_in.op))
  /\ UNCHANGED <<vmVars, frames, callVars, fn_in>>

ApplyBinop ==
  /\ fn_in.fn = "_call_binop_on_bindings"
  /\ fn_out = NoOut
  /\ fn_out' = _call_binop_on_bindings(fn_in.name, fn_in.x, fn_in.y)
  /\ UNCHANGED <<vmVars, frames, callVars, fn_in>>

ApplyHasCombination ==
  /\ fn_in.fn = "has_combination"
  /\ fn_out = NoOut
  /\ fn_out' = [ret |-> has_combination(fn_in.edg, fn_in.origins, fn_in.node,
                                        fn_in.bindings)]
  /\ UNCHANGED <<vmVars, frames, callVars, fn_in>>

\* the machine call_binary_operator is applied to: the operands are the
\* variables 1 and 2
CallBinaryMachine(in) ==
  [Machine EXCEPT !.st = FrameState(<<>>, <<>>, in.node, FALSE, NoWhy),
                  !.vars = << in.x, in.y >>, !.edg = in.edg, !.nn = 2,
                  !.log = <<>>]

ApplyCallBinary ==
  /\ fn_in.fn = "call_binary_operator"
  /\ fn_out = NoOut
  /\ LET out(m) == [data |-> Data(m, Len(m.vars)), log |-> m.log,
                     made |-> Len(m.vars) - 2]
     IN fn_out' = out(call_binary_operator(CallBinaryMachine(fn_in),
                                           fn_in.name, 1, 2, fn_in.report))
  /\ UNCHANGED <<vmVars, frames, callVars, fn_in>>

\* the machine load_attr is applied to: the object is the variable 1
LoadAttrMachine(in) ==
  [Machine EXCEPT !.st = FrameState(<<>>, <<>>, in.node, FALSE, NoWhy),
                  !.vars = << in.obj >>, !.edg = in.edg, !.nn = 2,
                  !.log = <<>>]

ApplyLoadAttr ==
  /\ fn_in.fn = "load_attr"
  /\ fn_out = NoOut
  /\ LET out(r) == [data |-> Data(r.m, r.result), log |-> r.m.log]
     IN fn_out' = out(load_attr(LoadAttrMachine(fn_in), 1, fn_in.attr,
                                fn_in.callself, fn_in.strict, fn_in.func,
                                fn_in.origins))
  /\ UNCHANGED <<vmVars, frames, callVars, fn_in>>

\* the machine _compare_op is applied to: the operands are the variables 1
\* and 2 on top of the stack, over the five entries an except block leaves
CompareMachine(in) ==
  [Machine EXCEPT !.st = FrameState(<<3, 3, 3, 3, 3, 1, 2>>, <<>>, in.node,
                                    FALSE, NoWhy),
                  !.vars = << in.x, in.y, {<<"int", EntryNode>>} >>,
                  !.edg = in.edg, !.nn = 2, !.log = <<>>]

ApplyCompareOp ==
  /\ fn_in.fn = "_compare_op"
  /\ fn_out = NoOut
  /\ LET out(r) == [raised |-> r.raised, stack |-> r.m.st.stack,
                     vars |-> r.m.vars, log |-> r.m.log,
                     lookups |-> r.lookups, added |-> r.added]
     IN fn_out' = out(_compare_op(CompareMachine(fn_in), fn_in.op_arg,
                                  fn_in.frame, fn_in.origins))
  /\ UNCHANGED <<vmVars, frames, callVars, fn_in>>

\* frame.states for the blocks 1..n: a pending state for those in ps
RECURSIVE pending_states(_, _)
pending_states(ps, n) ==
  IF n = 0 THEN <<>>
  ELSE Append(pending_states(ps, n - 1),
              IF n \in ps
              THEN FrameState(<<>>, <<>>, EntryNode, FALSE, NoWhy)
              ELSE NoState)

\* the machine at the first instruction of the block
EarlyExitMachine(in) ==
  [Machine EXCEPT
     !.st = FrameState(<<>>, IF in.finally THEN <<Block("finally", 0)>>
                             ELSE <<>>, EntryNode, FALSE, NoWhy),
     !.states = pending_states(in.pending, MaxJumps + 1),
     !.targets = [b \in DOMAIN pending_states({}, MaxJumps + 1) |-> <<>>]]

\* the block registers its targets and ends with the signal: what it
\* registered, whether the deletion went through, the pending states left
ApplyEarlyExit ==
  /\ fn_in.fn = "early_exit"
  /\ fn_out = NoOut
  /\ LET out(m) == [registered |-> m.targets[blk],
                     before |-> m.states,
                     ok |-> early_exit(m, blk).ok,
                     states |-> early_exit(m, blk).states]
         ended(m) == [m EXCEPT !.st = set_why(@, fn_in.why)]
     IN fn_out' = out(ended(store_jumps(EarlyExitMachine(fn_in),
                                        fn_in.jumps, 1)))
  /\ UNCHANGED <<vmVars, frames, callVars, fn_in>>

\* the tracker after each of the instructions
ApplyProcess ==
  /\ fn_in.fn = "process"
  /\ fn_out = NoOut
  /\ fn_out' = [after |-> [k \in DOMAIN fn_in.steps |->
                              finally_tracker_after(fn_in.steps, k)]]
  /\ UNCHANGED <<vmVars, frames, callVars, fn_in>>

\* the state a name is looked up in: nothing on the stack
NameLookupMachine ==
  [Machine EXCEPT !.st = FrameState(<<>>, <<>>, EntryNode, FALSE, NoWhy)]

\* byte_LOAD_NAME, byte_LOAD_FAST or byte_LOAD_GLOBAL of x
ApplyNameLookup ==
  /\ fn_in.fn = "name_lookup"
  /\ fn_out = NoOut
  /\ LET out(m) == [stack |-> [i \in DOMAIN m.st.stack |->
                                  Data(m, m.st.stack[i])],
                     st |-> [m.st EXCEPT !.stack = <<>>],
                     log |-> m.log, made |-> Len(m.vars) - Len(variables)]
         op == A(fn_in.opname, "x")
     IN fn_out' = out(CASE fn_in.opname = "LOAD_NAME" ->
                             byte_LOAD_NAME(NameLookupMachine, op, FALSE)
                        [] fn_in.opname = "LOAD_FAST" ->
                             byte_LOAD_FAST(NameLookupMachine, op, FALSE)
                        [] OTHER ->
                             byte_LOAD_GLOBAL(NameLookupMachine, op, FALSE))
  /\ UNCHANGED <<vmVars, frames, callVars, fn_in>>

\* ToType of the item, and ToType of what it returned
ApplyToType ==
  /\ fn_in.fn = "ToType"
  /\ fn_out = NoOut
  /\ LET again(r) ==
           [first |-> r,
            again |-> IF r.raised THEN r
                      ELSE ToType(r.value, fn_in.allow_constants,
                                  fn_in.allow_functions,
                                  fn_in.allow_singletons)]
     IN fn_out' = again(ToType(fn_in.item, fn_in.allow_constants,
                               fn_in.allow_functions, fn_in.allow_singletons))
  /\ UNCHANGED <<vmVars, frames, callVars, fn_in>>

\* the machine a conditional jump is applied to: the tested value is the
\* variable 2 on top of the stack; the state pending at the target 2 (if
\* any) is at the node 2 and has the stack the jump arrives with
JumpIfMachine(in) ==
  [Machine EXCEPT
     !.st = FrameState(<<1, 2>>, <<>>, EntryNode, FALSE, NoWhy),
     !.vars = << {<<"int", EntryNode>>}, {<<d, EntryNode>> : d \in in.data} >>,
     !.edg = {}, !.nn = 2, !.log = <<>>,
     !.states = << NoState,
                   IF in.pending
                   THEN FrameState(IF in.op.name \in {"POP_JUMP_IF_TRUE",
                                                      "POP_JUMP_IF_FALSE"}
                                   THEN <<1>> ELSE <<1, 2>>,
                                   <<>>, 2, FALSE, NoWhy)
                   ELSE NoState >>,
     !.targets = << <<>>, <<>> >>]

\* run_instruction's getattr(self, "byte_" + op.name) for these opcodes
jump_handler(m, op) ==
  CASE op.name = "JUMP_IF_TRUE_OR_POP" -> byte_JUMP_IF_TRUE_OR_POP(m, op)
    [] op.name = "JUMP_IF_FALSE_OR_POP" -> byte_JUMP_IF_FALSE_OR_POP(m, op)
    [] op.name = "JUMP_IF_TRUE" -> byte_JUMP_IF_TRUE(m, op)
    [] op.name = "JUMP_IF_FALSE" -> byte_JUMP_IF_FALSE(m, op)
    [] op.name = "POP_JUMP_IF_TRUE" -> byte_POP_JUMP_IF_TRUE(m, op)
    [] op.name = "POP_JUMP_IF_FALSE" -> byte_POP_JUMP_IF_FALSE(m, op)

\* the conditional jump: the state returned, the state pending at the
\* target, the targets registered and the CFG after it
ApplyJumpIf ==
  /\ fn_in.fn = "_jump_if"
  /\ fn_out = NoOut
  /\ LET out(m) == [st |-> m.st, stored |-> m.states[fn_in.op.target],
                     registered |-> m.targets[blk], nn |-> m.nn,
                     edg |-> m.edg]
     IN fn_out' = out(jump_handler(JumpIfMachine(fn_in), fn_in.op))
  /\ UNCHANGED <<vmVars, frames, callVars, fn_in>>

\* a stack of n entries v
RECURSIVE stack_of(_, _)
stack_of(v, n) == IF n = 0 THEN <<>> ELSE Append(stack_of(v, n - 1), v)

\* the machine the instructions on the cell are applied to: the cell is the
\* variable 1, the values to store are the variable 2, the frame runs at
\* the node 3
DerefMachine(in) ==
  [Machine EXCEPT
     !.st = FrameState(stack_of(2, MaxDerefOps), <<>>, 3, FALSE, NoWhy),
     !.vars = << in.cell, {<<"dict", 3>>} >>,
     !.edg = {<<1, 3>>}, !.nn = 3, !.log = <<>>, !.cells = <<1>>]

deref_handler(m, name) ==
  CASE name = "LOAD_CLOSURE" -> byte_LOAD_CLOSURE(m, A(name, 1))
    [] name = "LOAD_DEREF" -> byte_LOAD_DEREF(m, A(name, 1))
    [] name = "STORE_DEREF" -> byte_STORE_DEREF(m, A(name, 1))
    [] name = "DELETE_DEREF" -> byte_DELETE_DEREF(m, A(name, 1))

\* the machines before the first and after each of the instructions
RECURSIVE deref_run(_, _, _)
deref_run(ms, ops, k) ==
  IF k > Len(ops) THEN ms
  ELSE deref_run(Append(ms, deref_handler(ms[Len(ms)], ops[k])), ops, k + 1)

ApplyDeref ==
  /\ fn_in.fn = "deref"
  /\ fn_out = NoOut
  /\ LET seen(m) == [cells |-> m.cells, vars |-> m.vars, log |-> m.log,
                      stack |-> m.st.stack, node |-> m.st.node,
                      edg |-> m.edg]
         out(ms) == [at |-> [k \in DOMAIN ms |-> seen(ms[k])]]
     IN fn_out' = out(deref_run(<< DerefMachine(fn_in) >>, fn_in.ops, 1))
  /\ UNCHANGED <<vmVars, frames, callVars, fn_in>>

\* the machine a sequence is unpacked in: the sequence is the variable 2
\* on top of the stack
UnpackMachine(in) ==
  [Machine EXCEPT
     !.st = FrameState(<<1, 2>>, <<>>, EntryNode, FALSE, NoWhy),
     !.vars = << {<<"int", EntryNode>>}, {<<d, EntryNode>> : d \in in.data} >>,
     !.edg = {}, !.nn = 1, !.log = <<>>]

ApplyUnpack ==
  /\ fn_in.fn = "_unpack_sequence"
  /\ fn_out = NoOut
  /\ LET out(m) == [stack |-> m.st.stack, vars |-> m.vars, log |-> m.log]
     IN fn_out' = out(IF fn_in.op.name = "UNPACK_EX"
                      THEN byte_UNPACK_EX(UnpackMachine(fn_in), fn_in.op)
                      ELSE byte_UNPACK_SEQUENCE(UnpackMachine(fn_in), fn_in.op))
  /\ UNCHANGED <<vmVars, frames, callVars, fn_in>>

\* the number of entries the handler of the try block finds pushed
handler_entries(op) ==
  IF is_setup_except(op) THEN (IF pyver >= 38 THEN 6 ELSE 3) ELSE 1

\* the machine at the first instruction of the code, which sets up the try
\* block: the operand stack holds the variable 1; a state pending at the
\* handler holds the variable 2 in every entry and is at the node 2
SetupMachine(in) ==
  [Machine EXCEPT
     !.st = FrameState(stack_of(1, in.depth), in.blocks, EntryNode, FALSE,
                       NoWhy),
     !.vars = << {<<"int", EntryNode>>}, {<<"str", 2>>} >>,
     !.edg = {}, !.nn = 2, !.log = <<>>,
     !.states[order[1][1].target] =
        IF in.pending
        THEN FrameState(stack_of(2, in.depth + handler_entries(order[1][1])),
                        <<>>, 2, FALSE, NoWhy)
        ELSE NoState]

ApplySetup ==
  /\ fn_in.fn = "setup"
  /\ fn_out = NoOut
  /\ LET op == order[1][1]
         out(m) == [st |-> m.st, stored |-> m.states[op.target],
                     registered |-> m.targets[blk], vars |-> m.vars]
     IN fn_out' = out(IF op.name = "SETUP_EXCEPT"
                      THEN byte_SETUP_EXCEPT(SetupMachine(fn_in), op)
                      ELSE byte_SETUP_FINALLY(SetupMachine(fn_in), op))
  /\ UNCHANGED <<vmVars, frames, callVars, fn_in>>

\* n entries (the variable 1) pushed
RECURSIVE grown(_, _)
grown(st, n) == IF n = 0 THEN st ELSE grown(push(st, 1), n - 1)

\* the state after the loops have been entered with SETUP_LOOP
RECURSIVE loops_entered(_, _, _)
loops_entered(m, n, grow) ==
  IF n = 0 THEN m
  ELSE LET m1 == byte_SETUP_LOOP(loops_entered(m, n - 1, grow), I("SETUP_LOOP"))
       IN [m1 EXCEPT !.st = grown(@, grow)]

\* the state after the try blocks have been entered
RECURSIVE blocks_entered(_, _, _, _)
blocks_entered(st, types, k, grow) ==
  IF k = 0 THEN st
  ELSE grown(push_block(blocks_entered(st, types, k - 1, grow), types[k]), grow)

\* the machine at the break or continue
LoopMachine(in) ==
  LET entered(m) ==
        [m EXCEPT !.st = blocks_entered(@, in.inner, Len(in.inner), in.grow)]
  IN entered(loops_entered(
       [Machine EXCEPT
          !.st = FrameState(stack_of(1, in.depth), <<>>, EntryNode, FALSE,
                            NoWhy),
          !.vars = << {<<"int", EntryNode>>} >>,
          !.edg = {}, !.nn = 1, !.log = <<>>,
          !.states = << NoState, NoState >>,
          !.targets = << <<>>, <<>> >>],
       in.loops, in.grow))

ApplyLoopExit ==
  /\ fn_in.fn = "loop_exit"
  /\ fn_out = NoOut
  /\ LET out(r) == [raised |-> r.raised, st |-> r.m.st,
                     stored |-> r.m.states[2],
                     registered |-> r.m.targets[blk]]
     IN fn_out' = out(IF fn_in.name = "BREAK_LOOP"
                      THEN byte_BREAK_LOOP(LoopMachine(fn_in),
                                           J("BREAK_LOOP", 2))
                      ELSE byte_CONTINUE_LOOP(LoopMachine(fn_in),
                                              J("CONTINUE_LOOP", 2)))
  /\ UNCHANGED <<vmVars, frames, callVars, fn_in>>

ApplyCheckDefaults ==
  /\ fn_in.fn = "_check_defaults"
  /\ fn_out = NoOut
  /\ LET out(r) == [calls |-> r.calls, log |-> r.log,
                     replaced |-> r.replaced, raised |-> r.raised]
     IN fn_out' = out(_check_defaults(fn_in))
  /\ UNCHANGED <<vmVars, frames, callVars, fn_in>>

AwaitMachine(in) ==
  [Machine EXCEPT
     !.st = FrameState(<<1>>, <<>>, 2, FALSE, NoWhy),
     !.vars = << {<<d, 1>> : d \in in.data} >>,
     !.edg = {<<1, 2>>}, !.nn = 2, !.log = <<>>]

ApplyToCoroutine ==
  /\ fn_in.fn = "_to_coroutine"
  /\ fn_out = NoOut
  /\ LET out(c, m) ==
           [ret |-> c.m.vars[c.ret], same |-> c.ret = 1,
            awaited |-> c.awaited, depth |-> c.depth,
            stack |-> m.st.stack, pushed |-> m.vars[top(m.st)]]
     IN fn_out' = out(_to_coroutine([AwaitMachine(fn_in) EXCEPT !.st = pop(@)],
                                    1, TRUE),
                      byte_GET_AWAITABLE(AwaitMachine(fn_in),
                                         I("GET_AWAITABLE")))
  /\ UNCHANGED <<vmVars, frames, callVars, fn_in>>

NextApply ==
  \/ ApplyToCoroutine
  \/ ApplyCheckDefaults
  \/ ApplyLoopExit
  \/ ApplySetup
  \/ ApplyUnpack
  \/ ApplyDeref
  \/ ApplyJumpIf
  \/ ApplyEarlyExit
  \/ ApplyProcess
  \/ ApplyToType
  \/ ApplyNameLookup
  \/ ApplyCompareOp
  \/ ApplyLoadAttr
  \/ ApplyCallBinary
  \/ ApplyRaise
  \/ ApplyBinop
  \/ ApplyHasCombination

SpecApply == InitApply /\ [][NextApply]_vars

(***************************************************************************)
(* Properties of the interpreter loop.                                     *)
(***************************************************************************)
\* the frame is still on vm.frames and its loop has not finished
FrameAborted == phase = "fault" /\ frames # <<>>

\* C1: an instruction whose name has no byte_<name> handler makes
\* run_instruction raise VirtualMachineError: no diagnostic is recorded, no
\* FrameState comes back (the state run_frame holds, the pending states and
\* the variables are those from before the instruction), and run_frame does
\* not catch it: the frame is left on the stack and nothing is interpreted
\* after it.
C1_UnknownOpcodeIsFatal ==
  /\ [](last.op.name \notin Handlers \cup {"none"} =>
         /\ fault = "VirtualMachineError"
         /\ FrameAborted
         /\ errorlog = last.m.log
         /\ state = last.pre
         /\ states = last.m.states
         /\ variables = last.m.vars
         /\ <<blk, ip>> = <<last.blk, last.ip>>)
  /\ [][fault = "none"]_vars

\* an instruction without a handler was reached with a value on the stack
C1_Witness ==
  /\ fault = "VirtualMachineError"
  /\ last.op.name = "NOP"
  /\ Len(last.pre.stack) = 1

(***************************************************************************)
(* Diagnosable conditions.  Each is stated on the machine the instruction  *)
(* found (l.m), the instruction and what the handler learned from outside. *)
(***************************************************************************)
\* the name has no binding visible at the state's node in the store
Unbound(m, store, name) ==
  store[name] = 0 \/ Bindings(m, store[name], m.st.node) = {}

\* the name is found nowhere the instruction looks, no wildcard import can
\* have defined it, and it is not a forward reference of an annotation
NameNotFound(l) ==
  LET m == l.m
      name == l.op.arg
  IN /\ ~late
     /\ CASE l.op.name = "LOAD_NAME" ->
               /\ Unbound(m, m.locals, name) /\ Unbound(m, m.globals, name)
               /\ (_is_private(name) \/ Unbound(m, f_builtins, name))
               /\ (_is_private(name) \/ ~m.wild)
          [] l.op.name = "LOAD_FAST" -> Unbound(m, m.locals, name)
          [] l.op.name = "LOAD_GLOBAL" ->
               Unbound(m, m.globals, name) /\ Unbound(m, f_builtins, name)
          [] OTHER -> FALSE

\* the module, or the name in the module, cannot be found
ImportFails(l) ==
  /\ ~l.env.ignore
  /\ ~l.env.found
  /\ CASE l.op.name = "IMPORT_NAME" -> TRUE
       [] l.op.name = "IMPORT_FROM" ->
            Data(l.m, top(l.m.st)) \cap AMBIGUOUS_OR_EMPTY = {}
       [] OTHER -> FALSE

\* no pair of bindings of the two operands has a method that returns
UnsupportedOperands(l) ==
  /\ l.op.name = "BINARY_ADD"
  /\ LET pairs == Data(l.m, peek(l.m.st, 2)) \X Data(l.m, peek(l.m.st, 1))
         res == [p \in pairs |-> _call_binop_on_bindings("__add__", p[1], p[2])]
     IN /\ \A p \in pairs : res[p].kind # "ret"
        /\ \/ \A p \in pairs : res[p].kind = "none"
           \/ \E p \in pairs : res[p].error = "FailedFunctionCall"

\* a literal sequence of the wrong length is unpacked
BadUnpacking(l) ==
  /\ l.op.name = "UNPACK_SEQUENCE"
  /\ \E d \in Data(l.m, top(l.m.st)) :
       literal_len(d) > 0 /\ literal_len(d) # l.op.arg

\* the operand-stack depth change of the instruction
StackEffect(op) ==
  CASE op.name \in {"LOAD_NAME", "LOAD_FAST", "LOAD_GLOBAL", "IMPORT_FROM"} -> 1
    [] op.name \in {"IMPORT_NAME", "BINARY_ADD"} -> -1
    [] op.name = "UNPACK_SEQUENCE" -> op.arg - 1

DiagnosingOps ==
  {"LOAD_NAME", "LOAD_FAST", "LOAD_GLOBAL", "IMPORT_NAME", "IMPORT_FROM",
   "BINARY_ADD", "UNPACK_SEQUENCE"}

\* the instruction went on: no completion signal, and the operand stack
\* changed in depth as it does when nothing is wrong
GoesOn(l) ==
  /\ l.handler_why = NoWhy
  /\ l.post.why = NoWhy
  /\ Len(l.post.stack) - Len(l.pre.stack) = StackEffect(l.op)

\* what the instruction left on top of the stack is unsolvable
PushedUnsolvable(l) == Data(Machine, top(l.post)) = {Unsolvable}

OpAt(p) == order[p[1]][p[2]]

\* a return was executed in the try body that the SETUP_FINALLY with target
\* t protects: after the setup, in a block before the finally block
ReturnedInTry(t) ==
  \E i, j \in DOMAIN trace :
    /\ i < j
    /\ OpAt(trace[i]).name = "SETUP_FINALLY"
    /\ OpAt(trace[i]).target = t
    /\ OpAt(trace[j]).name = "RETURN_VALUE"
    /\ trace[j][1] < t

\* the instruction executed last stopped its block and stored no state for
\* the block after it
StopsThere(l) ==
  /\ l.ended
  /\ l.blk < Len(order) => states[l.blk + 1] = l.m.states[l.blk + 1]

OnStack(fs, c) == \E i \in DOMAIN fs : fs[i].f_code = c

\* C5 (as the code has it): a call that creates a frame checks for
\* recursion, not for depth.  make_frame raises VirtualMachineRecursionError
\* exactly when the code object is already on the stack of frames, whatever
\* the depth; it raises before anything is pushed, makes no frame and logs
\* no diagnostic, so the caller can go on; otherwise the frame is made, also
\* at the maximum depth.  So a frame made by make_frame never shares its
\* code object with a frame below it.
C5_RecursionCheckedNotDepth ==
  /\ (call_last.kind = "make_frame") =>
       (/\ (call_last.raised = "VirtualMachineRecursionError")
              <=> OnStack(call_last.pre, call_last.code)
        /\ (call_last.raised # "none") =>
              (/\ call_last.post = call_last.pre
               /\ call_last.frame = 0
               /\ call_last.logged = <<>>)
        /\ (call_last.raised = "none") => (call_last.frame = call_last.code))
  /\ \A i, j \in DOMAIN frames :
       (i < j /\ frames[j].via = "make_frame")
         => (frames[i].f_code # frames[j].f_code)

\* recursion was detected with fewer frames on the stack than the maximum
\* depth, and the caller went on
C5_Witness ==
  /\ call_last.kind = "make_frame"
  /\ call_last.raised = "VirtualMachineRecursionError"
  /\ Len(call_last.pre) < maximum_depth
  /\ Len(frames) < Len(call_last.pre)

\* C5 as claimed: the stack never holds more frames than the maximum depth,
\* and a call that would exceed it raises VirtualMachineRecursionError before
\* the frame is pushed, logging nothing.
C5_AsClaimed ==
  /\ Len(frames) <= maximum_depth
  /\ (call_last.kind = "make_frame") =>
       (/\ (call_last.raised = "VirtualMachineRecursionError")
              <=> (Len(call_last.pre) >= maximum_depth)
        /\ (call_last.raised # "none") =>
              (call_last.post = call_last.pre /\ call_last.logged = <<>>))

(***************************************************************************)
(* Properties of single functions (SpecApply).                             *)
(***************************************************************************)
Applied(fn) == fn_in.fn = fn /\ fn_out # NoOut
BareRaise == Applied("byte_RAISE_VARARGS") /\ fn_in.op.arg = 0

\* C4 (as the code has it): a RAISE_VARARGS without argument is never
\* rejected and is never a no-op.  Without an active exception it marks an
\* exception as active and sets the 'exception' signal, as a raise with
\* arguments does; with an active exception the handler sets the 're-raise'
\* signal (which run_instruction turns into 'exception') and leaves the
\* active exception as it was.  The operand stack is untouched either way.
C4_BareRaise ==
  BareRaise =>
    (/\ fn_out.handler.stack = fn_in.st.stack
     /\ fn_out.handler.exc
     /\ fn_out.st.why = "exception"
     /\ fn_out.st = [fn_out.handler EXCEPT !.why = "exception"]
     /\ fn_out.handler.why = IF fn_in.st.exc THEN "reraise" ELSE "exception")

\* a bare raise without an active exception was run
C4_Witness ==
  /\ BareRaise
  /\ ~fn_in.st.exc
  /\ fn_in.st.stack # <<>>
  /\ fn_out.handler.why = "exception"

\* C4 as claimed: without an active exception a bare raise sets no
\* 'exception' signal and marks no exception as active; with one, the
\* handler sets the re-raise signal and the exception stays active.
C4_AsClaimed ==
  BareRaise =>
    IF fn_in.st.exc
    THEN fn_out.handler.why = "reraise" /\ fn_out.handler.exc
    ELSE fn_out.handler.why # "exception" /\ ~fn_out.handler.exc

\* a binding all of whose origins are without prerequisites
NoPrerequisites(b) == \A o \in fn_in.origins[b] : o.source_sets = {{}}
\* a binding that lives only on nodes the query node cannot be reached from
Unreachable(b) ==
  \A o \in fn_in.origins[b] : ~is_reachable(fn_in.edg, o.node, fn_in.node)

\* C6: has_combination is true of any two bindings without prerequisites,
\* whatever the query node.
C6_NoPrerequisitesAlwaysVisible ==
  (/\ Applied("has_combination")
   /\ Cardinality(fn_in.bindings) = 2
   /\ \A b \in fn_in.bindings : NoPrerequisites(b))
    => fn_out.ret

\* the query was made at a node neither binding's node reaches
C6_Witness ==
  /\ Applied("has_combination")
  /\ Cardinality(fn_in.bindings) = 2
  /\ \A b \in fn_in.bindings : NoPrerequisites(b) /\ Unreachable(b)
  /\ fn_in.edg # {}
  /\ fn_out.ret

\* the only origin of the binding queried
SoleOrigin(b) == CHOOSE o \in fn_in.origins[b] : TRUE
QueryOfOne ==
  /\ Applied("has_combination")
  /\ Cardinality(fn_in.bindings) = 1
  /\ \A b \in fn_in.bindings : Cardinality(fn_in.origins[b]) = 1

\* C7 (as the source sets work): when every source set of the binding's
\* only origin contains a binding that lives on a node from which the query
\* node cannot be reached, has_combination is false; source sets are
\* alternatives, so one such source set among others does not decide it.
C7_UnreachableSourceIsNotVisible ==
  (/\ QueryOfOne
   /\ \A b \in fn_in.bindings :
        \A S \in SoleOrigin(b).source_sets : \E s \in S : Unreachable(s))
    => ~fn_out.ret

\* the binding's own node reaches the query node, its source does not
C7_Witness ==
  /\ QueryOfOne
  /\ \A b \in fn_in.bindings :
       /\ is_reachable(fn_in.edg, SoleOrigin(b).node, fn_in.node)
       /\ \A S \in SoleOrigin(b).source_sets : \E s \in S : Unreachable(s)
  /\ ~fn_out.ret

\* C7 as claimed: one source set with an unreachable binding is enough.
C7_AsClaimed ==
  (/\ QueryOfOne
   /\ \A b \in fn_in.bindings :
        \E S \in SoleOrigin(b).source_sets : \E s \in S : Unreachable(s))
    => ~fn_out.ret

(***************************************************************************)
(* Properties of the program's variables (Spec).                           *)
(***************************************************************************)
\* C8: no step of the interpreter removes a variable, or removes or changes
\* a binding of a variable that exists: every variable keeps its bindings
\* (value and origin node) from one step to the next, so its binding set at
\* a later step contains its binding set at every earlier step.
C8_VariablesOnlyGrow ==
  [][/\ Len(variables') >= Len(variables)
     /\ \A v \in DOMAIN variables : variables[v] \subseteq variables'[v]]_vars

\* assertIsNotNone(x) narrowed x: x's variable still holds None, and a new
\* variable holds what is left
C8_Witness ==
  /\ last.op.name = "CALL_FUNCTION"
  /\ \E v \in DOMAIN last.m.vars :
       /\ None \in {b[1] : b \in last.m.vars[v]}
       /\ last.m.vars[v] \subseteq variables[v]
       /\ \E w \in DOMAIN variables :
            /\ w > Len(last.m.vars)
            /\ {b[1] : b \in variables[w]} = {b[1] : b \in last.m.vars[v]} \ {None}
            /\ variables[w] # {}

\* what _call_binop_on_bindings was applied to
BinopApplied == Applied("_call_binop_on_bindings")
rname_in == REVERSE_NAME_MAPPING(fn_in.name)
AmbiguousLeft == fn_in.x \in AMBIGUOUS_OR_EMPTY

\* C9: with a reflected counterpart and an ambiguous left binding the result
\* is one unsolvable binding with source set {x, y} and no attribute is
\* looked up or called on x or y, whatever y is; without a reflected
\* counterpart the forward method of x is looked up as for any other x.
C9_AmbiguousLeftShortcut ==
  (BinopApplied /\ AmbiguousLeft) =>
    IF rname_in # ""
    THEN /\ fn_out.kind = "ret"
         /\ fn_out.data = Unsolvable
         /\ fn_out.sources = {fn_in.x, fn_in.y}
         /\ fn_out.tried = <<>>
    ELSE /\ fn_out.tried # <<>>
         /\ fn_out.tried[1].obj = fn_in.x
         /\ fn_out.tried[1].attr = fn_in.name
         /\ fn_out.sources = {}

\* x is unknown and y's class defines __radd__ and no __add__
C9_Witness ==
  /\ BinopApplied
  /\ fn_in.name = "__add__"
  /\ fn_in.x = Unknown
  /\ fn_in.y = "R"
  /\ fn_out.data = Unsolvable
  /\ fn_out.tried = <<>>

\* y's class is a strict subclass of x's class and a class before x's class
\* in y's mro defines the reflected method
SubclassDefinesReflected ==
  /\ rname_in # ""
  /\ \E i \in DOMAIN cls_mro(fn_in.y) :
       /\ i > 1
       /\ cls_mro(fn_in.y)[i] = fn_in.x
       /\ \E j \in 1..(i - 1) : rname_in \in cls_members(cls_mro(fn_in.y)[j])

Forward == [obj |-> fn_in.x, attr |-> fn_in.name]
Reflected == [obj |-> fn_in.y, attr |-> rname_in]
Candidate(t) == [obj |-> t.obj, attr |-> t.attr]

\* C10: outside the ambiguous-left shortcut, the reflected method of y is
\* attempted first exactly when y's class is a strict subclass of x's class
\* that defines the reflected method before x's class in its mro; otherwise
\* the forward method of x is attempted first.  The other candidate is
\* attempted exactly when there is one and the first is missing or its call
\* fails.
C10_ReflectedFirstForSubclass ==
  (BinopApplied /\ ~(AmbiguousLeft /\ rname_in # "")) =>
    LET tried == fn_out.tried
        first == IF SubclassDefinesReflected THEN Reflected ELSE Forward
        second == IF SubclassDefinesReflected THEN Forward ELSE Reflected
    IN /\ Len(tried) \in {1, 2}
       /\ Candidate(tried[1]) = first
       /\ (Len(tried) = 2) <=> (rname_in # "" /\ ~tried[1].returned)
       /\ (Len(tried) = 2) => (Candidate(tried[2]) = second)

\* B is a subclass of A that overrides __radd__: A() + B() tries
\* B.__radd__ first
C10_Witness ==
  /\ BinopApplied
  /\ fn_in.name = "__add__"
  /\ fn_in.x = "A"
  /\ fn_in.y = "B"
  /\ Candidate(fn_out.tried[1]) = Reflected
  /\ fn_out.tried[1].returned

(***************************************************************************)
(* binary operators over the bindings of the operands                      *)
(***************************************************************************)
\* the add of a variable holding an int and a str binding to an int
IntOrStrPlusInt(l) ==
  /\ l.op.name = "BINARY_ADD"
  /\ Data(l.m, peek(l.m.st, 2)) = {"int", "str"}
  /\ Data(l.m, peek(l.m.st, 1)) = {"int"}

\* C11 (as the code has it): for x + 1 where x holds one int binding and
\* one str binding, the result variable holds the int result only, and no
\* diagnostic is recorded, since the int binding produced a result.
C11_OnlyIntAndNoDiagnostic ==
  IntOrStrPlusInt(last) =>
    /\ Data(Machine, top(last.post)) = {"int"}
    /\ last.logged = 0

\* C11 as claimed: the result holds the int result only and an
\* unsupported-operands diagnostic is recorded for the str binding
C11_AsClaimed ==
  IntOrStrPlusInt(last) =>
    /\ Data(Machine, top(last.post)) = {"int"}
    /\ last.logged >= 1
    /\ \E i \in DOMAIN errorlog : errorlog[i].kind = "unsupported-operands"

\* the add of {int, str} to an int was executed with reporting on and set
\* no completion signal
C11_Witness ==
  /\ IntOrStrPlusInt(last)
  /\ report_errors
  /\ last.post.why = NoWhy
  /\ code = 5


\* call_binary_operator was applied; what each pair of bindings yields
CallBinaryApplied == Applied("call_binary_operator")
PairsIn == {b[1] : b \in fn_in.x} \X {b[1] : b \in fn_in.y}
PairResult(p) == _call_binop_on_bindings(fn_in.name, p[1], p[2])
Returning == {p \in PairsIn : PairResult(p).kind = "ret"}
PairErrors == {PairResult(p).error : p \in PairsIn \ Returning} \ {"none"}

\* C12 (as the code has it): call_binary_operator tries every pair of
\* bindings: the result holds what every pair that produces a result
\* produces, whatever the other pairs do, and when some pair produces a
\* result nothing is reported.  A diagnostic is recorded only when no pair
\* produced a result and report_errors is set (the argument and the option);
\* then the result is a best-effort value and at most one diagnostic is
\* recorded: exactly one when no failure is a missing dict key, none when
\* the failures are missing dict keys.
C12_EveryPairTriedAtMostOneDiagnostic ==
  CallBinaryApplied =>
    /\ fn_out.made = 1
    /\ Returning # {} =>
         /\ fn_out.data = {PairResult(p).data : p \in Returning}
         /\ fn_out.log = <<>>
    /\ fn_out.log # <<>> =>
         Returning = {} /\ fn_in.report /\ report_errors
    /\ Len(fn_out.log) <= 1
    /\ Returning = {} /\ fn_in.report => fn_out.data = {Unsolvable}
    /\ Returning = {} /\ fn_in.report /\ report_errors =>
         /\ "DictKeyMissing" \notin PairErrors => Len(fn_out.log) = 1
         /\ PairErrors = {"DictKeyMissing"} => fn_out.log = <<>>

\* C12 as claimed: whenever no pair produced a result and report_errors is
\* set, exactly one diagnostic is recorded
C12_AsClaimed ==
  CallBinaryApplied =>
    /\ Returning # {} =>
         /\ fn_out.data = {PairResult(p).data : p \in Returning}
         /\ fn_out.log = <<>>
    /\ fn_out.log # <<>> =>
         Returning = {} /\ fn_in.report /\ report_errors
    /\ Returning = {} /\ fn_in.report /\ report_errors =>
         Len(fn_out.log) = 1 /\ fn_out.data = {Unsolvable}

\* one pair failed and another produced a result, with reporting on
C12_Witness ==
  /\ CallBinaryApplied
  /\ fn_in.report /\ report_errors
  /\ Returning # {} /\ Returning # PairsIn
  /\ PairErrors # {}
  /\ fn_out.log = <<>>

\* the bindings of the left operand (1), each derived at its node from a
\* binding (3) made there, and of the right operand (2) can co-occur at the
\* node of the call
CanCoOccur ==
  has_combination(fn_in.edg,
                  << {Origin(b[2], {{3}}) : b \in fn_in.x},
                     {Origin(b[2], {{}}) : b \in fn_in.y},
                     {Origin(b[2], {{}}) : b \in fn_in.x} >>,
                  fn_in.node, {1, 2})

\* the diagnostics call_binary_operator records, from what the pairs of
\* values yield alone
ExpectedLog ==
  IF Returning # {} \/ ~fn_in.report \/ ~report_errors THEN <<>>
  ELSE IF PairErrors = {} THEN << Diag("unsupported-operands", fn_in.name) >>
  ELSE IF "FailedFunctionCall" \in PairErrors
       THEN << Diag("invalid-function-call", fn_in.name) >>
  ELSE <<>>

LoadAttrApplied == Applied("load_attr")
ObjectIn == {b[1] : b \in fn_in.obj}
\* the lookup of the attribute on the value yields nothing
Lacks(d) == attr_values(d, fn_in.attr) = {}
\* the binding, together with the binding of the function of the frame when
\* there is one, holds at the current node
HoldsWithFunc(d) ==
  has_combination(fn_in.edg, fn_in.origins, fn_in.node, {d} \cup fn_in.func)
AttributeErrorsFor(d) ==
  {i \in DOMAIN fn_out.log :
     fn_out.log[i].kind = "attribute-error" /\ fn_out.log[i].what = d}
\* __class__ is loaded from the object the innermost call is made on
ClassOfCallself ==
  /\ fn_in.attr = "__class__"
  /\ fn_in.callself # NoCallself
  /\ ObjectIn = fn_in.callself
\* the attribute value as pasted into the result: a None whose origins are
\* not strict is replaced by an unsolvable value
Pasted(v) == IF v = None /\ ~fn_in.strict THEN Unsolvable ELSE v

\* C14 (as the code has it): with the option report_errors on, load_attr
\* records one attribute-error for a binding of the object exactly when the
\* lookup of the attribute on it yields nothing and HasCombination at the
\* current node holds for it together with the binding of the function of
\* the frame, when there is one; with the option off it records none.  A
\* binding without the attribute that is not reachable is never reported.
\* The result holds the attribute values of the bindings that have it, a
\* None value whose origins are not strict being replaced by an unsolvable
\* value; it is an unsolvable value when no binding has the attribute, and
\* when __class__ is loaded from the object of the innermost call.
C14_AttributeErrorOnlyIfReachable ==
  LoadAttrApplied =>
    /\ \A d \in ObjectIn :
         Cardinality(AttributeErrorsFor(d)) =
           IF report_errors /\ Lacks(d) /\ HoldsWithFunc(d) THEN 1 ELSE 0
    /\ \A i \in DOMAIN fn_out.log :
         fn_out.log[i].kind = "attribute-error" /\ fn_out.log[i].what \in ObjectIn
    /\ fn_out.data =
         IF ClassOfCallself \/ \A d \in ObjectIn : Lacks(d)
         THEN {Unsolvable}
         ELSE {Pasted(v) : v \in UNION {attr_values(d, fn_in.attr) : d \in ObjectIn}}

\* C14 as claimed: an attribute-error is recorded exactly when the lookup
\* yields nothing and HasCombination holds; the result holds the attribute
\* values, or an unsolvable value when no binding has the attribute
C14_AsClaimed ==
  LoadAttrApplied =>
    /\ \A d \in ObjectIn :
         AttributeErrorsFor(d) # {} <=> Lacks(d) /\ HoldsWithFunc(d)
    /\ fn_out.data =
         IF \A d \in ObjectIn : Lacks(d)
         THEN {Unsolvable}
         ELSE UNION {attr_values(d, fn_in.attr) : d \in ObjectIn}

\* with reporting on, one binding has the attribute and another, which
\* lacks it, does not hold at the node together with the function: nothing
\* is reported and the result holds the attribute value
C14_Witness ==
  /\ LoadAttrApplied
  /\ report_errors
  /\ fn_in.func # {}
  /\ \E d \in ObjectIn : Lacks(d) /\ ~HoldsWithFunc(d)
  /\ \E d \in ObjectIn : ~Lacks(d)
  /\ fn_out.log = <<>>
  /\ fn_out.data = {"int"}


(***************************************************************************)
(* unpacking                                                               *)
(***************************************************************************)
\* the values of the sequence an UNPACK_SEQUENCE unpacks, and the
\* diagnostics the instruction added to the log
Unpacked(l) == Data(l.m, top(l.m.st))
AddedDiagnostics(l) ==
  {errorlog[i] : i \in (Len(l.m.log) + 1)..(Len(l.m.log) + l.logged)}

\* C15: UNPACK_SEQUENCE with n targets records, for every binding that is
\* a literal tuple or list of length L, a bad-unpacking diagnostic with
\* actual count L and expected count n if and only if L differs from n,
\* L = 0 included; a non-literal iterable of unknown length records none,
\* and each of the n targets is bound to the element type its iterator
\* produces.
C15_BadUnpackingIffLengthDiffers ==
  last.op.name = "UNPACK_SEQUENCE" =>
    /\ \A d \in Unpacked(last) :
         literal_len(d) >= 0 =>
           ([kind |-> "bad-unpacking", what |-> literal_len(d),
             expected |-> last.op.arg] \in AddedDiagnostics(last)
              <=> literal_len(d) # last.op.arg)
    /\ (\A d \in Unpacked(last) : literal_len(d) < 0 /\ has_iter(d)) =>
         /\ last.logged = 0
         /\ Len(last.post.stack) = Len(last.pre.stack) - 1 + last.op.arg
         /\ \A i \in 1..last.op.arg :
              Data(Machine, peek(last.post, i)) = {"elem"}

\* an empty literal tuple was unpacked into two targets and nothing was
\* recorded
C15_Witness ==
  /\ last.op.name = "UNPACK_SEQUENCE"
  /\ Unpacked(last) = {"tuple0"}
  /\ last.op.arg = 2
  /\ last.logged = 0

\* the claim holds for the literal sequences that are not empty
C15_HoldsForNonEmptyLiterals ==
  last.op.name = "UNPACK_SEQUENCE" =>
    \A d \in Unpacked(last) :
      literal_len(d) > 0 =>
        ([kind |-> "bad-unpacking", what |-> literal_len(d),
          expected |-> last.op.arg] \in AddedDiagnostics(last)
           <=> literal_len(d) # last.op.arg)

(***************************************************************************)
(* Properties of the comparisons.                                          *)
(***************************************************************************)
CompareApplied == Applied("_compare_op")
XIn == {b[1] : b \in fn_in.x}
YIn == {b[1] : b \in fn_in.y}
\* the values of the variable a comparison has pushed
CompareResult == {b[1] : b \in fn_out.vars[fn_out.stack[Len(fn_out.stack)]]}
\* item in seq or item not in seq; the item is x and the sequence is y
MembershipTest == CompareApplied /\ fn_in.op_arg \in {CMP_IN, CMP_NOT_IN}
Defines(d, attr) == d \notin AMBIGUOUS_OR_EMPTY /\ attr_values(d, attr) # {}
DefinesNoneOf(d, attrs) ==
  d \notin AMBIGUOUS_OR_EMPTY /\ \A a \in attrs : attr_values(d, a) = {}
\* what the calls of __contains__ with the item return
ContainsReturns ==
  {r.data : r \in {q \in {_call_binop_on_bindings("__contains__", p[1], p[2]) :
                            p \in YIn \X XIn} : q.kind = "ret"}}

\* C16: for item in seq and item not in seq, a seq that has __contains__ has
\* it called with the item and nothing else looked up; otherwise __iter__ is
\* looked up, and __getitem__ only when __iter__ is absent; an object that
\* defines only __iter__ or only __getitem__ gives a bool and no diagnostic,
\* an object that defines none of the three gives exactly one
\* unsupported-operands diagnostic
C16_ContainsThenIterThenGetitem ==
  MembershipTest =>
    /\ (\E d \in YIn : attr_values(d, "__contains__") # {})
         => /\ fn_out.lookups = << "__contains__" >>
            /\ ContainsReturns # {} =>
                 /\ fn_out.log = <<>>
                 /\ CompareResult \subseteq {"True", "False", "bool"}
                 /\ ContainsReturns = {"True"} =>
                      CompareResult = {bool_const(fn_in.op_arg = CMP_IN)}
    /\ (\A d \in YIn : attr_values(d, "__contains__") = {})
         => /\ SubSeq(fn_out.lookups, 1, 2) = << "__contains__", "__iter__" >>
            /\ (\E i \in DOMAIN fn_out.lookups :
                   fn_out.lookups[i] = "__getitem__")
                 <=> \A d \in YIn : attr_values(d, "__iter__") = {}
    /\ \A d \in YIn :
         /\ ( /\ YIn = {d}
              /\ DefinesNoneOf(d, {"__contains__"})
              /\ \/ Defines(d, "__iter__") /\ DefinesNoneOf(d, {"__getitem__"})
                 \/ Defines(d, "__getitem__") /\ DefinesNoneOf(d, {"__iter__"}) )
             => CompareResult = {"bool"} /\ fn_out.log = <<>>
         /\ ( /\ YIn = {d}
              /\ DefinesNoneOf(d, {"__contains__", "__iter__", "__getitem__"}) )
             => fn_out.log = << Diag("unsupported-operands", "__contains__") >>

\* an int is tested for membership in an int, and one diagnostic is recorded
C16_Witness ==
  /\ MembershipTest
  /\ YIn = {"int"}
  /\ XIn = {"int"}
  /\ Len(fn_out.log) = 1
  /\ CompareResult = {"bool"}

\* x is y or x is not y
IdentityTest == CompareApplied /\ fn_in.op_arg \in {CMP_IS, CMP_IS_NOT}
\* the frame runs a class method or __new__ that has a first argument
InClassMethod ==
  /\ fn_in.frame.func \in {"classmethod", "__new__"}
  /\ fn_in.frame.first_arg # NoFirstArg
\* an operand holds nothing but values of that first argument
SolelyFirstArg ==
  /\ InClassMethod
  /\ \/ XIn \subseteq fn_in.frame.first_arg
     \/ YIn \subseteq fn_in.frame.first_arg

\* C17: is and is not add one boolean binding for every pair (x, y) of
\* bindings of the operands, with the source set {x, y}, at the node of the
\* state; only when an operand holds nothing but values of the first argument
\* of the class method or __new__ of the frame is the result a single
\* ambiguous value
C17_OneBindingPerPair ==
  IdentityTest =>
    /\ SolelyFirstArg =>
         /\ CompareResult = {Unsolvable}
         /\ fn_out.added = {}
    /\ ~SolelyFirstArg =>
         /\ \A x \in XIn : \A y \in YIn :
              \E a \in fn_out.added :
                /\ a.source_set = {<<"x", x>>, <<"y", y>>}
                /\ a.where = fn_in.node
                /\ a.data \in {"True", "False", "bool"}
                /\ a.data \in CompareResult
         /\ Cardinality(fn_out.added) = Cardinality(XIn \X YIn)
         /\ CompareResult = {a.data : a \in fn_out.added}
    /\ Len(fn_out.vars) = 4

\* in a class method, two values are tested against None and the class: four
\* bindings are added, true only for None is None
C17_Witness ==
  /\ IdentityTest
  /\ fn_in.op_arg = CMP_IS
  /\ InClassMethod
  /\ XIn = {"int", None}
  /\ YIn = {None, "cls"}
  /\ Cardinality(fn_out.added) = 4
  /\ \A a \in fn_out.added :
       a.data = "True" <=> a.source_set = {<<"x", None>>, <<"y", None>>}

\* the stack _compare_op was applied to
StackIn == CompareMachine(fn_in).st.stack
Orderings == {CMP_LT, CMP_LE, CMP_GT, CMP_GE}

\* C18: COMPARE_OP pops two operands and pushes one result variable, a new
\* one; the result of a comparison that is always supported has a binding;
\* an ordering of operands without a usable comparison method is left
\* without bindings and without a diagnostic, and only a comparison that is
\* not always supported is ever left without bindings; an argument that is
\* no comparison raises VirtualMachineError
C18_OneResultBoolOnlyIfAlwaysSupported ==
  CompareApplied =>
    /\ fn_out.raised <=> fn_in.op_arg \notin CMP_LT..CMP_EXC_MATCH
    /\ ~fn_out.raised =>
         /\ Len(fn_out.stack) = Len(StackIn) - 1
         /\ fn_out.stack[Len(fn_out.stack)] > 3
         /\ fn_in.op_arg \in {CMP_EQ, CMP_NE, CMP_IS, CMP_IS_NOT}
              => CompareResult # {}
         /\ (fn_in.op_arg \in Orderings /\ XIn = {"type"} /\ YIn = {"type"})
              => CompareResult = {} /\ fn_out.log = <<>>
         /\ CompareResult = {} => fn_in.op_arg \in Orderings
    /\ fn_out.raised => fn_out.stack = StackIn /\ fn_out.log = <<>>

\* two classes are compared with <: the result pushed has no binding
C18_Witness ==
  /\ CompareApplied
  /\ fn_in.op_arg = CMP_LT
  /\ XIn = {"type"}
  /\ YIn = {"type"}
  /\ Len(fn_out.stack) = 6
  /\ CompareResult = {}

(***************************************************************************)
(* Properties of the loading of names.                                     *)
(***************************************************************************)
NameLoad(l) == l.op.name \in {"LOAD_NAME", "LOAD_FAST", "LOAD_GLOBAL"}

\* the stores the claim has an instruction consult, in order
StoresClaimed(l) ==
  CASE l.op.name = "LOAD_NAME" -> << l.m.locals, l.m.globals, f_builtins >>
    [] l.op.name = "LOAD_FAST" -> << l.m.locals >>
    [] l.op.name = "LOAD_GLOBAL" -> << l.m.globals, f_builtins >>

\* the stores the instruction consults: LOAD_NAME leaves the builtins out
\* for a private name
StoresConsulted(l) ==
  IF l.op.name = "LOAD_NAME" /\ _is_private(l.op.arg)
  THEN << l.m.locals, l.m.globals >>
  ELSE StoresClaimed(l)

\* the first of the stores in which the name has a binding visible at the
\* node of the state (0: none)
FirstVisible(l, stores) ==
  LET hits == {i \in DOMAIN stores : ~Unbound(l.m, stores[i], l.op.arg)}
  IN IF hits = {} THEN 0 ELSE CHOOSE i \in hits : \A j \in hits : i <= j

\* the values of the name in a store, as load_from pastes them
ValuesIn(l, store) ==
  {IF d = None /\ ~l.env.strict THEN Unsolvable ELSE d :
     d \in Bindings(l.m, store[l.op.arg], l.m.st.node)}

NameErrors(l) == {d \in AddedDiagnostics(l) : d.kind = "name-error"}
\* every store consulted has failed and the failure is not taken for a name
\* that an unknown wildcard import defines
Reported(l) ==
  \/ l.op.name # "LOAD_NAME"
  \/ _is_private(l.op.arg)
  \/ ~l.m.wild

\* the value pushed is that of the first store with a visible binding
UsesFirstOf(l, stores) ==
  FirstVisible(l, stores) # 0 =>
    Data(Machine, top(l.post)) = ValuesIn(l, stores[FirstVisible(l, stores)])

UnresolvedAfterWildcard(l) ==
  /\ l.op.name = "LOAD_NAME"
  /\ l.m.wild
  /\ FirstVisible(l, StoresConsulted(l)) = 0

\* the module an IMPORT_STAR pops is unknown
StarOfUnknown(l) ==
  /\ l.op.name = "IMPORT_STAR"
  /\ Data(l.m, top(l.m.st)) \subseteq {Unknown, Unsolvable}
StarOfKnown(l) == l.op.name = "IMPORT_STAR" /\ ~StarOfUnknown(l)

\* C20: an IMPORT_STAR from an unknown module, and nothing else, records
\* that unknown wildcard imports were seen; after it a LOAD_NAME of a name
\* that is otherwise unresolved yields Any with no name-error exactly when
\* the name does not begin with exactly one underscore; a name with exactly
\* one leading underscore is not looked up in the builtins and is reported
\* with a name-error or deferred as a late annotation; an IMPORT_STAR from a
\* known module leaves the names with one leading underscore out of locals
C20_WildcardResolvesAllButPrivate ==
  /\ StarOfUnknown(last) => wildcard
  /\ wildcard => \E i \in DOMAIN trace : OpAt(trace[i]).name = "IMPORT_STAR"
  /\ StarOfKnown(last) =>
       /\ wildcard = last.m.wild
       /\ \A n \in ModuleItems :
            /\ leading_underscores(n) = 1 => f_locals[n] = last.m.locals[n]
            /\ leading_underscores(n) = 0 => ~Unbound(Machine, f_locals, n)
  /\ UnresolvedAfterWildcard(last) =>
       /\ leading_underscores(last.op.arg) # 1
            <=> /\ Data(Machine, top(last.post)) = {Unsolvable}
                /\ last.logged = 0
       /\ leading_underscores(last.op.arg) = 1 =>
            IF late
            THEN /\ Data(Machine, top(last.post)) = {"LateAnnotation"}
                 /\ last.logged = 0
            ELSE NameErrors(last) = {Diag("name-error", last.op.arg)}
  /\ (last.op.name = "LOAD_NAME" /\ leading_underscores(last.op.arg) = 1
        /\ Unbound(last.m, last.m.locals, last.op.arg)
        /\ Unbound(last.m, last.m.globals, last.op.arg))
       => \/ Data(Machine, top(last.post)) = {"LateAnnotation"}
          \/ NameErrors(last) # {}

\* after a wildcard import of an unknown module, the name __d that no store
\* defines is loaded as Any and nothing is reported
C20_Witness ==
  /\ UnresolvedAfterWildcard(last)
  /\ last.op.arg = "__d"
  /\ ~late
  /\ Data(Machine, top(last.post)) = {Unsolvable}
  /\ last.logged = 0

(***************************************************************************)
(* Properties of the details of a name error (SpecApply).                  *)
(***************************************************************************)

\* the lookup of x fails: none of the stores the opcode consults has it
LookupFails ==
  CASE fn_in.opname = "LOAD_FAST" -> fn_in.place # "locals"
    [] fn_in.opname = "LOAD_GLOBAL" -> fn_in.place \in {"nowhere", "locals"}
    [] OTHER -> fn_in.place = "nowhere"

\* the details attached to the name errors of the lookup
DetailsLogged ==
  {IF "details" \in DOMAIN fn_out.log[i] THEN fn_out.log[i].details
   ELSE "none" : i \in DOMAIN fn_out.log}

\* C21: a failing name lookup pushes one value (unsolvable, or the late
\* annotation), leaves the rest of the FrameState as it was and logs one
\* name-error for the name (none for a late annotation), whatever frames,
\* outer functions, outer classes and class bodies the details are computed
\* from; the computation of the details does not raise
C21_OutcomeIndependentOfDetails ==
  (Applied("name_lookup") /\ LookupFails) =>
    /\ fn_out.stack =
         << {IF fn_in.late THEN "LateAnnotation" ELSE Unsolvable} >>
    /\ fn_out.st = FrameState(<<>>, <<>>, EntryNode, FALSE, NoWhy)
    /\ Len(fn_out.log) = IF fn_in.late THEN 0 ELSE 1
    /\ \A i \in DOMAIN fn_out.log :
         fn_out.log[i].kind = "name-error" /\ fn_out.log[i].what = "x"

\* a failing lookup in a class body nested in a function, whose error names
\* an outer class
C21_Witness ==
  /\ Applied("name_lookup")
  /\ LookupFails
  /\ ~fn_in.late
  /\ Len(fn_in.frames) >= 3
  /\ DetailsLogged = {"outer_class"}

(***************************************************************************)
(* Properties of the loop over the blocks in run_frame (Spec).             *)
(***************************************************************************)

\* the block has started being interpreted
Started(t) ==
  \/ \E i \in DOMAIN trace : trace[i][1] = t
  \/ t = blk /\ phase = "run"

\* some block never started: run_frame skipped it
SomeBlockSkipped == \E t \in DOMAIN order : t < blk /\ ~Started(t)

\* this step stores a pending state for block t: a store_jump registers t
\* as a target, or the block falls through to t
MergesInto(t) ==
  \/ \E p \in DOMAIN targets :
       \E k \in (Len(targets[p]) + 1)..Len(targets'[p]) : targets'[p][k] = t
  \/ /\ trace' # trace
     /\ phase' = "fetch"
     /\ state'.why = NoWhy
     /\ carry_on_to_next(CurOp)
     /\ t = blk + 1

\* the blocks are visited in the declared order, a block starts with its
\* pending state at its first instruction, the instructions run in program
\* order up to the first one that leaves a completion signal, and a block
\* without a pending state is skipped
VisitsInOrder ==
  /\ blk' >= blk
  /\ (trace' # trace) =>
       (phase = "run" /\ trace' = Append(trace, <<blk, ip>>))
  /\ (trace' # trace /\ phase' # "fault") =>
       IF state'.why = NoWhy /\ ip < Len(order[blk])
       THEN phase' = "run" /\ blk' = blk /\ ip' = ip + 1
       ELSE phase' = "fetch" /\ blk' = blk + 1
  /\ (phase = "fetch" /\ phase' = "run") =>
       (states[blk] # NoState /\ state' = states[blk] /\ ip' = 1
        /\ blk' = blk)
  /\ (phase = "fetch" /\ blk <= Len(order) /\ states[blk] = NoState) =>
       (blk' = blk + 1 /\ phase' = "fetch" /\ trace' = trace)

\* C22 as claimed: ... and no predecessor merges its state into a block
\* that has started being interpreted
C22_AsClaimed ==
  [][/\ VisitsInOrder
     /\ \A t \in DOMAIN order : MergesInto(t) => ~Started(t)]_vars

\* C22: the blocks are visited in the declared order, each from its pending
\* state and up to the first completion signal, blocks without a pending
\* state are skipped, and a block that precedes t in the order merges its
\* state into t before t starts being interpreted
C22_VisitsInOrderForwardMerged ==
  [][/\ VisitsInOrder
     /\ \A t \in DOMAIN order :
          (MergesInto(t) /\ blk < t) => ~Started(t)]_vars

\* a run that skipped a block and interpreted a block that an earlier block
\* had jumped to
C22_Witness ==
  /\ phase = "done"
  /\ SomeBlockSkipped
  /\ \E t \in DOMAIN order :
       /\ Started(t)
       /\ \E p \in 1..(t - 1) :
            \E k \in DOMAIN targets[p] : targets[p][k] = t

\* a back edge: block p has stored a pending state for the block t, which
\* is p itself or precedes it in the order and has been interpreted
BackEdge(p, t) ==
  /\ t <= p
  /\ \E k \in DOMAIN targets[p] : targets[p][k] = t
  /\ \E i \in DOMAIN trace : trace[i][1] = t

\* the number of times block t started being interpreted
TimesStarted(t) == Cardinality({i \in DOMAIN trace : trace[i] = <<t, 1>>})

\* C23 as claimed: the header of a back edge is interpreted again
C23_AsClaimed ==
  phase = "done" =>
    \A p, t \in DOMAIN order : BackEdge(p, t) => TimesStarted(t) >= 2

\* C23: a header that a back edge stores a pending state for is not
\* interpreted again, no instruction is run twice, and run_frame comes to
\* its end (or is left by an error)
C23_OnePassAndTermination ==
  /\ [](\A p, t \in DOMAIN order : BackEdge(p, t) => TimesStarted(t) = 1)
  /\ [](\A i, j \in DOMAIN trace : trace[i] = trace[j] => i = j)
  /\ <>(phase \in {"done", "fault"})

\* run_frame has finished with a back edge to an interpreted header
C23_Witness ==
  /\ phase = "done"
  /\ \E p, t \in DOMAIN order : BackEdge(p, t) /\ states[t] # NoState

(***************************************************************************)
(* Properties of pytd.ToType (SpecApply).                                  *)
(***************************************************************************)

\* a constant of an ordinary value type: not a type[...], not Any, not a
\* special form, not a singleton that stands for its type
OrdinaryConstant(in) ==
  /\ in.item.node = "Constant"
  /\ in.item.type.name \notin {"builtins.type", "typing.Any",
                                "typing_extensions._SpecialForm"}
  /\ in.item.name \notin SINGLETON_TYPES \cup {"typing_extensions.TypedDict"}

\* what ToType does with types, modules, classes, constants and functions
ToTypeOfDeclarations ==
  Applied("ToType") =>
    /\ (IsPytdType(fn_in.item) \/ fn_in.item.node = "Module") =>
         fn_out.first = [raised |-> FALSE, value |-> fn_in.item]
    /\ fn_in.item.node = "Class" =>
         /\ ~fn_out.first.raised
         /\ fn_out.first.value.node = "ClassType"
         /\ fn_out.first.value.name = fn_in.item.name
         /\ fn_out.first.value.cls = fn_in.item
    /\ (/\ fn_in.item.node = "Constant"
        /\ fn_in.item.type.node = "GenericType"
        /\ fn_in.item.type.name = "builtins.type") =>
         fn_out.first = [raised |-> FALSE,
                         value |-> fn_in.item.type.parameters[1]]
    /\ (fn_in.item.node = "Function" /\ ~fn_in.allow_functions) =>
         fn_out.first.raised
    /\ (OrdinaryConstant(fn_in) /\ ~fn_in.allow_constants) =>
         fn_out.first.raised

\* C24: ToType returns a type or a module unchanged and gives the same
\* result when applied to its own result; a class becomes the ClassType
\* with its name that points to it, a constant of type builtins.type[C]
\* becomes C, and a function that is not allowed or an ordinary constant
\* that is not allowed raises NotImplementedError
C24_ToTypeIdempotent ==
  /\ ToTypeOfDeclarations
  /\ (Applied("ToType") /\ ~fn_out.first.raised) =>
       fn_out.again = fn_out.first

\* C24 for every item but an alias: the same holds
C24_HoldsButForAliases ==
  /\ ToTypeOfDeclarations
  /\ (Applied("ToType") /\ ~fn_out.first.raised
        /\ fn_in.item.node # "Alias") =>
       fn_out.again = fn_out.first

\* ToType of an alias of a constant whose type is builtins.type[int]: the
\* constant comes back, and ToType of the constant is int
C24_Witness ==
  /\ Applied("ToType")
  /\ fn_in.item.node = "Alias"
  /\ fn_in.item.type.node = "Constant"
  /\ fn_out.first = [raised |-> FALSE, value |-> fn_in.item.type]
  /\ fn_out.again = [raised |-> FALSE, value |-> NamedType("builtins.int")]

(***************************************************************************)
(* Properties of the completion signal (Spec).                             *)
(***************************************************************************)

\* the completion signals of the FrameStates of the frame: the state
\* between two instructions or at the end of a block, the state the last
\* instruction left, and the pending states of the blocks
SignalsSeen ==
  {st.why : st \in ({state, last.post} \cup {states[b] : b \in DOMAIN states})
                     \ {NoState}}

\* C25 as claimed: the signal is none, return, exception, re-raise, break
\* or continue
C25_AsClaimed ==
  SignalsSeen \subseteq {NoWhy, "return", "exception", "reraise", "break",
                         "continue"}

\* C25: between instructions, at the end of a block and in a pending
\* state the signal is none, return, exception or unsatisfiable; what a
\* handler stores is one of these, re-raise or NoReturn
C25_SignalIsNoneReturnExceptionUnsatisfiable ==
  /\ SignalsSeen \subseteq {NoWhy, "return", "exception", "unsatisfiable"}
  /\ last.handler_why \in {NoWhy, "return", "exception", "unsatisfiable",
                            "reraise", "NoReturn"}

\* a conditional jump whose fall-through branch cannot be taken has ended
\* its block with the signal unsatisfiable
C25_Witness ==
  /\ last.op.name = "POP_JUMP_IF_FALSE"
  /\ last.ended
  /\ last.post # NoState
  /\ last.post.why = "unsatisfiable"



(***************************************************************************)
(* Properties of nested run_frame calls (SpecCall).                        *)
(***************************************************************************)
\* C26: as long as no exception has left a run_frame call, vm.frame is the
\* last element of vm.frames (None when the stack is empty) and vm.frames
\* holds the frames of the calls in progress, outermost first; and when a
\* run_frame call pops its frame with no exception having left a call
\* before, the assertion of pop_frame holds and the call leaves vm.frames
\* exactly as it found them
C26_FramesAreLifo ==
  /\ [](~unwound =>
         /\ vm_frame = IF frames = <<>> THEN NoFrame ELSE frames[Len(frames)]
         /\ Len(frames) = Len(running)
         /\ \A i \in DOMAIN running :
              /\ running[i].frame = frames[i]
              /\ running[i].found = SubSeq(frames, 1, i - 1))
  /\ [][(~unwound /\ Len(frames') < Len(frames)) =>
          /\ ~unwound'
          /\ frames' = running[Len(running)].found]_vars

\* a generator frame resumed inside two other run_frame calls has returned
\* and the calls around it go on
C26_Witness ==
  /\ ~unwound
  /\ call_last.kind = "resume_frame"
  /\ Len(call_last.pre) >= 2
  /\ frames = call_last.pre
  /\ call_last.code \in suspended

(***************************************************************************)
(* Properties of the finally tracker (SpecApply).                          *)
(***************************************************************************)
\* the tracker's stack before the k-th instruction
TrackerBefore(k) == IF k = 1 THEN <<>> ELSE fn_out.after[k - 1].stack

\* the instructions i+1..k open and close scopes inside the n scopes open
\* after instruction i, and record their signals inside those inner scopes
InnerScopesOnly(i, k, n) ==
  \A l \in (i + 1)..k :
    /\ Len(fn_out.after[l].stack) >= n
    /\ \/ Len(TrackerBefore(l)) > n
       \/ Len(fn_out.after[l].stack) = n + 1

\* C27: the tracker keeps one reason per open scope, innermost last.  A
\* setup-except instruction opens a scope with no reason; END_FINALLY closes
\* the innermost scope and yields its reason (nothing when no scope is
\* open); a 'return' or 'exception' signal of any other instruction is
\* recorded in the innermost open scope and changes no other scope; any
\* other signal changes nothing.  A scope's reason is the same after inner
\* scopes were opened and closed, and only 'return' and 'exception' are
\* ever yielded.
C27_TrackerIsLifo ==
  Applied("process") =>
    /\ \A k \in DOMAIN fn_in.steps :
         LET pre == TrackerBefore(k)
             post == fn_out.after[k]
             step == fn_in.steps[k]
         IN /\ post.why \in {NoWhy, "return", "exception"}
            /\ (step.op.name = "SETUP_EXCEPT") =>
                 (post.stack = Append(pre, NoWhy) /\ post.why = NoWhy)
            /\ (step.op.name = "END_FINALLY" /\ pre = <<>>) =>
                 (post.stack = <<>> /\ post.why = NoWhy)
            /\ (step.op.name = "END_FINALLY" /\ pre # <<>>) =>
                 /\ post.stack = SubSeq(pre, 1, Len(pre) - 1)
                 /\ post.why = pre[Len(pre)]
            /\ (step.op.name \notin {"SETUP_EXCEPT", "END_FINALLY"}) =>
                 /\ post.why = NoWhy
                 /\ Len(post.stack) = Len(pre)
                 /\ \A j \in 1..(Len(pre) - 1) : post.stack[j] = pre[j]
                 /\ (pre # <<>>) =>
                      post.stack[Len(pre)] =
                        IF step.why \in {"return", "exception"}
                        THEN step.why ELSE pre[Len(pre)]
    /\ \A i, k \in DOMAIN fn_in.steps :
         (i < k /\ InnerScopesOnly(i, k, Len(fn_out.after[i].stack))
                /\ Len(fn_out.after[k].stack) = Len(fn_out.after[i].stack))
           => (fn_out.after[k].stack = fn_out.after[i].stack)

\* a scope is opened, an inner scope is opened and records an exception,
\* the inner scope is closed, yielding 'exception', and the outer scope
\* still has no reason
C27_Witness ==
  /\ Applied("process")
  /\ Len(fn_in.steps) = 4
  /\ fn_out.after[2].stack = <<NoWhy, NoWhy>>
  /\ fn_out.after[3].stack = <<NoWhy, "exception">>
  /\ fn_out.after[4] = [stack |-> <<NoWhy>>, why |-> "exception"]

(***************************************************************************)
(* Properties of the frame's return variable (Spec).                       *)
(***************************************************************************)
\* what run_frame adds to the return variable of a frame that cannot return
NoReturnBinding(node) ==
  <<IF allowed_returns = NoAnnotation THEN NoReturn ELSE "E_instance", node>>

\* C28: neither assertion on the return variable at the end of run_frame
\* fails.  While the blocks are run the return variable has bindings only
\* if a block ended with 'return' (the only signal that sets can_return).
\* When run_frame has finished and no block ended with a signal, the return
\* variable holds the one binding of unsolvable at the entry node; when
\* blocks ended with signals and none was 'return', it holds the one
\* binding of NoReturn, or of an instance of the annotated return class.
C28_ReturnVariableAtEnd ==
  /\ [](fault # "AssertionError")
  /\ []((phase \in {"fetch", "run"} /\ variables[return_variable] # {})
          => can_return)
  /\ [][(can_return' /\ ~can_return)
          => (last'.ended /\ last'.post.why = "return")]_vars
  /\ []((phase = "done" /\ return_nodes = <<>>)
          => (variables[return_variable] = {<<Unsolvable, EntryNode>>}))
  /\ []((phase = "done" /\ return_nodes # <<>> /\ ~can_return)
          => (\E node \in 1..nnodes :
                variables[return_variable] = {NoReturnBinding(node)}))

\* run_frame has finished on a frame whose blocks ended with signals, the
\* last of them 'exception', and none with 'return': the return variable
\* holds NoReturn
C28_Witness ==
  /\ phase = "done"
  /\ return_nodes # <<>>
  /\ ~can_return
  /\ last.post.why = "exception"
  /\ \E node \in 1..nnodes : variables[return_variable] = {<<NoReturn, node>>}

(***************************************************************************)
(* Properties of run_instruction (Spec).                                   *)
(***************************************************************************)
\* the handler of the last instruction signalled a re-raise or a call that
\* never returns
ReraiseOrNoReturn == last.handler_why \in {"reraise", "NoReturn"}

\* C29: the state run_instruction returns never has the signal 'reraise'
\* or 'NoReturn': it has 'exception' where the handler stored one of them
\* and the handler's signal otherwise.  The tracker records 'exception' for
\* them in the innermost open scope (END_FINALLY, which closes the scope,
\* apart), and unless the tracker yields a remembered reason run_frame ends
\* the block with 'exception'.
C29_ReraiseAndNoReturnBecomeException ==
  /\ last.run_why \notin {"reraise", "NoReturn"}
  /\ last.run_why = IF ReraiseOrNoReturn THEN "exception"
                    ELSE last.handler_why
  /\ (ReraiseOrNoReturn /\ last.op.name # "END_FINALLY"
                        /\ last.tracker_pre # <<>>)
       => (/\ Len(tracker) = Len(last.tracker_pre)
           /\ tracker[Len(tracker)] = "exception")
  /\ (ReraiseOrNoReturn /\ last.new_why = NoWhy)
       => (last.post.why = "exception" /\ last.ended)

\* a call of a function that never returns, inside an open try scope, has
\* ended its block with the signal 'exception'
C29_Witness ==
  /\ last.handler_why = "NoReturn"
  /\ last.run_why = "exception"
  /\ last.tracker_pre # <<>>
  /\ last.post.why = "exception"

(***************************************************************************)
(* Properties of the early exit of a block (SpecApply, Spec).              *)
(***************************************************************************)
\* the block ended with 'return' or 'exception' under a 'finally' block
EarlyExit ==
  /\ Applied("early_exit")
  /\ fn_in.finally
  /\ fn_in.why \in {"return", "exception"}

C30_FailsOnlyOnRepeatedTarget ==
  EarlyExit =>
    /\ fn_out.ok <=> (\A i, j \in DOMAIN fn_out.registered :
                        i # j => fn_out.registered[i] # fn_out.registered[j])
    /\ fn_out.ok =>
         \A b \in DOMAIN fn_out.states :
           fn_out.states[b] =
             IF \E i \in DOMAIN fn_out.registered : fn_out.registered[i] = b
             THEN NoState ELSE fn_out.before[b]

(***************************************************************************)
(* C31: conditional jumps                                                  *)
(***************************************************************************)
\* the tested value can have the logical value v
CanBe(d, v) == IF d = "True" THEN v ELSE IF d = "False" THEN ~v ELSE TRUE
JumpsIf ==
  fn_in.op.name \in {"JUMP_IF_TRUE_OR_POP", "JUMP_IF_TRUE", "POP_JUMP_IF_TRUE"}
JumpSatisfiable == \E d \in fn_in.data : CanBe(d, JumpsIf)
NormalSatisfiable == \E d \in fn_in.data : CanBe(d, ~JumpsIf)
JumpRestricted == JumpSatisfiable /\ \E d \in fn_in.data : ~CanBe(d, JumpsIf)
PendingBefore == JumpIfMachine(fn_in).states[2]
NewNode(n) == n > 2

\* C31 (as stated): every satisfiable fall-through branch continues at a
\* new CFG node
C31_AsClaimed ==
  (Applied("_jump_if") /\ NormalSatisfiable) => NewNode(fn_out.st.node)

\* C31 (as the code has it): no state is stored or registered for the target
\* when the jump condition is unsatisfiable; otherwise one is stored (merged
\* into the one pending) at a new node reached from the current one, through
\* one more node when only some bindings satisfy the condition; the state
\* returned carries 'unsatisfiable' exactly when the fall-through condition
\* is unsatisfiable; a satisfiable fall-through continues at a new node when
\* the jump is satisfiable too, and at the same node when it is not
C31_ConditionalJump ==
  Applied("_jump_if") =>
    /\ ~JumpSatisfiable =>
         /\ fn_out.stored = PendingBefore
         /\ fn_out.registered = <<>>
    /\ JumpSatisfiable =>
         /\ fn_out.stored # NoState
         /\ fn_out.stored.why = NoWhy
         /\ fn_out.registered = <<2>>
         /\ IF fn_in.pending THEN fn_out.stored.node = 2
            ELSE NewNode(fn_out.stored.node)
         /\ is_reachable(fn_out.edg, EntryNode, fn_out.stored.node)
    /\ (fn_out.st.why = "unsatisfiable") = ~NormalSatisfiable
    /\ fn_out.st.why \in {"unsatisfiable", NoWhy}
    /\ (NormalSatisfiable /\ JumpSatisfiable) =>
         /\ NewNode(fn_out.st.node)
         /\ <<EntryNode, fn_out.st.node>> \in fn_out.edg
         /\ fn_out.st.node # fn_out.stored.node
    /\ (NormalSatisfiable /\ ~JumpSatisfiable) => fn_out.st.node = EntryNode
    /\ fn_out.nn = 2 + (IF JumpSatisfiable THEN 1 ELSE 0)
                     + (IF JumpRestricted THEN 1 ELSE 0)
                     + (IF NormalSatisfiable /\ JumpSatisfiable THEN 1 ELSE 0)

C31_Witness ==
  /\ Applied("_jump_if")
  /\ fn_in.data = {"True", "False"}
  /\ fn_in.op.name = "POP_JUMP_IF_FALSE"
  /\ ~fn_in.pending
  /\ fn_out.stored # NoState
  /\ NewNode(fn_out.st.node)

(***************************************************************************)
(* C32: relational comparisons                                             *)
(***************************************************************************)
RelApplied == CompareApplied /\ fn_in.op_arg \in CMP_LT..CMP_GE
RelName == cmp_rel_name(fn_in.op_arg)
OperandPairs == XIn \X YIn
Classified(p) == cmp_rel(RelName, p[1], p[2]) \in {"True", "False"}
Unclassified == {p \in OperandPairs : ~Classified(p)}
\* ret, leftover_x and leftover_y are the variables 4, 5 and 6, the result
\* of the dunder method (when it is called) the variable 7
RetData == {b[1] : b \in fn_out.vars[4]}
LeftoverPairs ==
  {b[1] : b \in fn_out.vars[5]} \X {b[1] : b \in fn_out.vars[6]}
DunderCalled == Len(fn_out.vars) = 7
DunderData == IF DunderCalled THEN {b[1] : b \in fn_out.vars[7]} ELSE {}

DerefApplied == Applied("deref")
DerefSteps == DOMAIN fn_in.ops
CellAt(k) == fn_out.at[k].cells[1]
\* the bindings of the cell before the k-th instruction that are visible
VisibleAt(k) ==
  {b \in fn_out.at[k].vars[CellAt(k)] :
     is_reachable(fn_out.at[k].edg, b[2], fn_out.at[k].node)}
FilterRemoves(k) == VisibleAt(k) # fn_out.at[k].vars[CellAt(k)]
KeepsVariables(k) ==
  \A v \in DOMAIN fn_out.at[k].vars :
    fn_out.at[k].vars[v] \subseteq fn_out.at[k + 1].vars[v]
NameErrorsAt(k) == Len(fn_out.at[k + 1].log) - Len(fn_out.at[k].log)

\* C33 (as stated): after any sequence of the four instructions the cell
\* is the Variable it was when the frame was created
C33_AsClaimed ==
  DerefApplied => \A k \in DOMAIN fn_out.at : CellAt(k) = CellAt(1)

\* C33 (as the code has it): STORE_DEREF and DELETE_DEREF leave the cell the
\* same Variable and only add bindings to it (no Variable ever loses
\* a binding); LOAD_CLOSURE and LOAD_DEREF replace the cell by a new
\* Variable exactly when some binding of the cell is not visible at the
\* current node, and push the cell
C33_WritesKeepTheCellLoadsMayReplaceIt ==
  DerefApplied =>
    \A k \in DerefSteps :
      /\ KeepsVariables(k)
      /\ fn_in.ops[k] \in {"STORE_DEREF", "DELETE_DEREF"} =>
           CellAt(k + 1) = CellAt(k)
      /\ fn_in.ops[k] = "STORE_DEREF" =>
           {b[1] : b \in fn_out.at[k].vars[
                           fn_out.at[k].stack[Len(fn_out.at[k].stack)]]}
             \subseteq {b[1] : b \in fn_out.at[k + 1].vars[CellAt(k)]}
      /\ fn_in.ops[k] = "DELETE_DEREF" =>
           Deleted \in {b[1] : b \in fn_out.at[k + 1].vars[CellAt(k)]}
      /\ fn_in.ops[k] \in {"LOAD_CLOSURE", "LOAD_DEREF"} =>
           /\ (CellAt(k + 1) # CellAt(k)) <=> FilterRemoves(k)
           /\ FilterRemoves(k) => CellAt(k + 1) > Len(fn_out.at[k].vars)
           /\ fn_out.at[k + 1].stack = Append(fn_out.at[k].stack, CellAt(k + 1))

\* a store into a cell that a load has replaced
C33_Witness ==
  /\ DerefApplied
  /\ fn_in.ops = <<"LOAD_CLOSURE", "STORE_DEREF">>
  /\ fn_in.cell = {<<"int", 1>>, <<"str", 2>>}
  /\ CellAt(2) # CellAt(1)
  /\ CellAt(3) = CellAt(2)
  /\ {b[1] : b \in fn_out.at[3].vars[CellAt(3)]} = {"int"}

\* C34 (as stated): LOAD_DEREF records a name error whenever the filter
\* removes bindings
C34_AsClaimed ==
  DerefApplied =>
    \A k \in DerefSteps :
      (fn_in.ops[k] = "LOAD_DEREF" /\ FilterRemoves(k)) => NameErrorsAt(k) >= 1

\* C34 (as the code has it): LOAD_DEREF records a name error for a cell
\* without any binding and for a cell with a visible Deleted binding, and
\* for nothing else; when the filter removes bindings the cell pushed holds
\* the visible ones, or an unsolvable value when none is visible;
\* LOAD_CLOSURE records only the deleted value
C34_NameErrorForEmptyOrDeletedCell ==
  DerefApplied =>
    \A k \in DerefSteps :
      fn_in.ops[k] \in {"LOAD_CLOSURE", "LOAD_DEREF"} =>
        /\ NameErrorsAt(k) =
             (IF fn_in.ops[k] = "LOAD_DEREF" /\ fn_out.at[k].vars[CellAt(k)] = {}
              THEN 1 ELSE 0)
             + (IF Deleted \in {b[1] : b \in VisibleAt(k)} THEN 1 ELSE 0)
        /\ \A i \in 1..NameErrorsAt(k) :
             fn_out.at[k + 1].log[Len(fn_out.at[k].log) + i].kind = "name-error"
        /\ {b[1] : b \in fn_out.at[k + 1].vars[CellAt(k + 1)]} =
             IF FilterRemoves(k) /\ VisibleAt(k) = {} THEN {Unsolvable}
             ELSE {b[1] : b \in VisibleAt(k)}

\* no binding of the cell is visible: an unsolvable value, no name error
C34_Witness ==
  /\ DerefApplied
  /\ fn_in.ops[1] = "LOAD_DEREF"
  /\ fn_in.cell = {<<"str", 2>>}
  /\ NameErrorsAt(1) = 0
  /\ fn_out.at[2].vars[CellAt(2)] = {<<Unsolvable, EntryNode>>}

(***************************************************************************)
(* C35, C36: unpacking                                                     *)
(***************************************************************************)
UnpackApplied == Applied("_unpack_sequence")
Starred == fn_in.op.name = "UNPACK_EX"
TargetsBefore == IF Starred THEN fn_in.op.arg % 256 ELSE fn_in.op.arg
TargetsAfter == IF Starred THEN fn_in.op.arg \div 256 ELSE 0
NumTargets == TargetsBefore + TargetsAfter + (IF Starred THEN 1 ELSE 0)
\* the values bound to the i-th target: the i-th entry from the top
TargetData(i) ==
  {b[1] : b \in fn_out.vars[fn_out.stack[Len(fn_out.stack) - i + 1]]}
BadUnpackings ==
  {fn_out.log[i].what : i \in {j \in DOMAIN fn_out.log :
                                fn_out.log[j].kind = "bad-unpacking"}}
OneVariablePerTarget ==
  /\ Len(fn_out.stack) = 1 + NumTargets
  /\ fn_out.stack[1] = 1
  /\ \A i \in 1..NumTargets : fn_out.stack[Len(fn_out.stack) - i + 1] > 2
  /\ \A d \in fn_in.data :
       (literal_len(d) = NumTargets /\ TargetsBefore > 0)
         => "e1" \in TargetData(1)

\* C35: UNPACK_SEQUENCE with n targets pops one Variable and pushes n new
\* ones, UNPACK_EX with b targets before and a after the starred one pushes
\* b + a + 1, for every Variable, one without bindings included; the first
\* element of a literal of the right length is on top
C35_OneVariablePerTarget == UnpackApplied => OneVariablePerTarget

\* a Variable without bindings is unpacked into two targets: nothing is
\* pushed
C35_Witness ==
  /\ UnpackApplied
  /\ fn_in.op = A("UNPACK_SEQUENCE", 2)
  /\ fn_in.data = {}
  /\ fn_out.stack = <<1>>

\* the claim holds for every Variable that has a binding
C35_HoldsForVariablesWithBindings ==
  (UnpackApplied /\ fn_in.data # {}) => OneVariablePerTarget

\* what UNPACK_EX is to bind for a literal of length len: the first
\* targets to the first elements, the starred one to the list of the middle
\* elements, the last targets to the last elements
BindsLiteral(len) ==
  /\ \A i \in 1..TargetsBefore : ItemNames[i] \in TargetData(i)
  /\ build_list(SubSeq(ItemNames, TargetsBefore + 1, len - TargetsAfter))
       \in TargetData(TargetsBefore + 1)
  /\ \A i \in 1..TargetsAfter :
       ItemNames[len - TargetsAfter + i] \in TargetData(TargetsBefore + 1 + i)

\* C36: UNPACK_EX with b targets before and a after the starred one takes
\* every literal sequence of length at least b + a without a bad-unpacking
\* diagnostic and binds the targets to its elements, the starred one to the
\* list of the middle elements (an empty list for the length b + a); only a
\* literal shorter than b + a is diagnosed
C36_StarTakesTheMiddle ==
  (UnpackApplied /\ Starred) =>
    /\ \A d \in fn_in.data :
         literal_len(d) >= TargetsBefore + TargetsAfter =>
           /\ literal_len(d) \notin BadUnpackings
           /\ Len(fn_out.stack) = 1 + NumTargets
           /\ BindsLiteral(literal_len(d))
    /\ \A l \in BadUnpackings : l < TargetsBefore + TargetsAfter

\* a, *b = (1,): the literal of length b + a is diagnosed and the starred
\* target is not bound to an empty list
C36_Witness ==
  /\ UnpackApplied
  /\ fn_in.op = A("UNPACK_EX", 1)
  /\ fn_in.data = {"tuple1"}
  /\ 1 \in BadUnpackings
  /\ "list[]" \notin TargetData(2)

\* the claim holds for the literals that leave the starred target an element
C36_HoldsForLongerLiterals ==
  (UnpackApplied /\ Starred) =>
    /\ \A d \in fn_in.data :
         literal_len(d) > TargetsBefore + TargetsAfter =>
           /\ literal_len(d) \notin BadUnpackings
           /\ Len(fn_out.stack) = 1 + NumTargets
           /\ BindsLiteral(literal_len(d))
    /\ \A l \in BadUnpackings : l <= TargetsBefore + TargetsAfter

(***************************************************************************)
(* C37: the setup of try blocks                                            *)
(***************************************************************************)
SetupApplied == Applied("setup")
\* the code objects 10 and 11 are try/except, 8 and 12 try/finally
GuardsExcept == fn_in.code \in {10, 11}
EntryStack == SetupMachine(fn_in).st.stack
HandlerTarget == order[1][1].target
\* the placeholders the handler finds, bottom first
Placeholders ==
  IF ~GuardsExcept THEN << None >>
  ELSE IF pyver >= 38
  THEN << "list", Unknown, Unknown, "list", Unknown, Unknown >>
  ELSE << "list", Unknown, Unknown >>
StoredData(i) == {b[1] : b \in fn_out.vars[fn_out.stored.stack[i]]}

\* C37: the setup of a try block returns the state with its operand stack
\* unchanged and one more block, 'setup-except' or 'finally', whose level is
\* the depth of the operand stack at entry; it stores for the handler a
\* state whose operand stack is the entry stack plus new placeholder
\* variables (traceback, value and type of the exception: three entries
\* before Python 3.8, six from 3.8 on; a single None for a finally block),
\* merged into the state pending there if there is one
C37_SetupStoresHandlerState ==
  SetupApplied =>
    /\ fn_out.st.stack = EntryStack
    /\ fn_out.st.why = NoWhy
    /\ fn_out.st.node = EntryNode
    /\ fn_out.st.blocks =
         Append(fn_in.blocks,
                Block(IF GuardsExcept THEN "setup-except" ELSE "finally",
                      fn_in.depth))
    /\ fn_out.registered = << HandlerTarget >>
    /\ fn_out.stored # NoState
    /\ Len(fn_out.stored.stack) = fn_in.depth + Len(Placeholders)
    /\ fn_out.stored.blocks = fn_in.blocks
    /\ \A i \in 1..fn_in.depth : "int" \in StoredData(i)
    /\ \A i \in DOMAIN Placeholders :
         Placeholders[i] \in StoredData(fn_in.depth + i)
    /\ ~fn_in.pending =>
         /\ SubSeq(fn_out.stored.stack, 1, fn_in.depth) = EntryStack
         /\ \A i \in DOMAIN Placeholders :
              /\ fn_out.stored.stack[fn_in.depth + i] > 2
              /\ StoredData(fn_in.depth + i) = {Placeholders[i]}
         /\ fn_out.stored.node = EntryNode
    /\ fn_in.pending =>
         /\ fn_out.stored.stack = stack_of(2, fn_in.depth + Len(Placeholders))
         /\ fn_out.stored.node = 2
         /\ "str" \in StoredData(1)

\* a try/except of Python 3.8 entered with one entry on the stack: the
\* handler finds seven
C37_Witness ==
  /\ SetupApplied
  /\ fn_in.code = 11
  /\ fn_in.depth = 1
  /\ ~fn_in.pending
  /\ Len(fn_out.stored.stack) = 7
  /\ fn_out.st.blocks = Append(fn_in.blocks, Block("setup-except", 1))

(***************************************************************************)
(* C38: break and continue                                                 *)
(***************************************************************************)
LoopExitApplied == Applied("loop_exit")
StateAtExit == LoopMachine(fn_in).st
\* the position of the innermost loop block on the block stack (0: none)
InnermostLoop ==
  IF \E i \in DOMAIN StateAtExit.blocks : StateAtExit.blocks[i].type = "loop"
  THEN CHOOSE i \in DOMAIN StateAtExit.blocks :
         /\ StateAtExit.blocks[i].type = "loop"
         /\ \A j \in DOMAIN StateAtExit.blocks :
              StateAtExit.blocks[j].type = "loop" => j <= i
  ELSE 0

\* C38: BREAK_LOOP stores for its target a state whose block stack is the
\* current one without the innermost 'loop' block and the blocks above it
\* and whose operand stack is cut down to the level of that loop block;
\* CONTINUE_LOOP stores a state without the blocks above the innermost
\* 'loop' block only; the state returned is the input state, without a
\* signal; the unwinding ends whenever a 'loop' block is on the block stack
C38_BreakAndContinueUnwind ==
  LoopExitApplied =>
    /\ fn_out.st = StateAtExit
    /\ fn_out.st.why = NoWhy
    /\ (fn_out.raised = "none") <=> InnermostLoop > 0
    /\ InnermostLoop > 0 =>
         /\ fn_out.stored # NoState
         /\ fn_out.stored.why = NoWhy
         /\ fn_out.registered = <<2>>
         /\ fn_in.name = "BREAK_LOOP" =>
              /\ fn_out.stored.blocks =
                   SubSeq(StateAtExit.blocks, 1, InnermostLoop - 1)
              /\ fn_out.stored.stack =
                   SubSeq(StateAtExit.stack, 1,
                          StateAtExit.blocks[InnermostLoop].level)
         /\ fn_in.name = "CONTINUE_LOOP" =>
              /\ fn_out.stored.blocks =
                   SubSeq(StateAtExit.blocks, 1, InnermostLoop)
              /\ Len(fn_out.stored.stack) >=
                   StateAtExit.blocks[InnermostLoop].level
              /\ fn_out.stored.stack =
                   SubSeq(StateAtExit.stack, 1, Len(fn_out.stored.stack))
    /\ InnermostLoop = 0 => fn_out.stored = NoState /\ fn_out.registered = <<>>

\* a break inside a try block inside the inner of two loops: three entries
\* and two blocks are dropped
C38_Witness ==
  /\ LoopExitApplied
  /\ fn_in.name = "BREAK_LOOP"
  /\ fn_in.loops = 2
  /\ fn_in.inner = <<"finally">>
  /\ fn_in.depth = 1
  /\ fn_in.grow = 1
  /\ Len(StateAtExit.stack) = 4
  /\ fn_out.stored.stack = <<1, 1>>
  /\ fn_out.stored.blocks = << Block("loop", 1) >>

(***************************************************************************)
(* C39: the defaults of a function are all checked                         *)
(***************************************************************************)
DefaultsChecked == Applied("_check_defaults")
\* the parameters whose default does not match their annotation
Mismatching ==
  {i \in DOMAIN fn_in.params :
     /\ fn_in.params[i].annot # NoAnnotation
     /\ fn_in.params[i].default # NoDefault
     /\ fn_in.params[i].default # fn_in.params[i].annot}
\* ... and those of them that are reported
Reportable ==
  {i \in Mismatching :
     ~(fn_in.params[i].default = Ellipsis /\ fn_in.has_empty_body)}
SeqRange(q) == {q[i] : i \in DOMAIN q}

\* C39: _check_defaults ends; every failed match replaces exactly one
\* mismatching default, so match_args is called at most (number of
\* parameters + 1) times, and one annotation-type-mismatch is recorded for
\* every parameter whose default mismatches its annotation, except for an
\* Ellipsis default of a function with an empty body
C39_EveryBadDefaultReportedOnce ==
  DefaultsChecked =>
    /\ fn_out.raised = "none"
    /\ fn_out.calls <= Len(fn_in.params) + 1
    /\ fn_out.calls = IF has_param_annotations(fn_in)
                      THEN Len(fn_out.replaced) + 1 ELSE 0
    /\ Len(fn_out.replaced) = Cardinality(Mismatching)
    /\ SeqRange(fn_out.replaced) =
         {fn_in.params[i].name : i \in Mismatching}
    /\ Len(fn_out.log) = Cardinality(Reportable)
    /\ SeqRange(fn_out.log) =
         {AnnotationTypeMismatch(fn_in.params[i].annot,
                                 fn_in.params[i].default,
                                 fn_in.params[i].name) : i \in Reportable}

\* def f(a: int = "", *, b: int = ...): pass -- two bad defaults, one of
\* them excused, three calls of match_args
C39_Witness ==
  /\ DefaultsChecked
  /\ Len(fn_in.params) = 2
  /\ fn_in.has_empty_body
  /\ fn_in.params[2].kwonly
  /\ ~fn_in.params[1].kwonly
  /\ Mismatching = {1, 2}
  /\ Reportable = {1}
  /\ fn_out.calls = 3
  /\ fn_out.replaced = <<"a", "b">>
  /\ Len(fn_out.log) = 1

\* def f(a: int = "", b: int = ""): return a -- both defaults are reported
C39_WitnessTwoReports ==
  /\ DefaultsChecked
  /\ Len(fn_in.params) = 2
  /\ ~fn_in.has_empty_body
  /\ Len(fn_out.log) = 2
  /\ fn_out.calls = 3

(***************************************************************************)
(* C40: __await__ is resolved once                                         *)
(***************************************************************************)
ToCoroutineApplied == Applied("_to_coroutine")
\* what a value is converted to: a generator becomes a coroutine, and
\* __await__ is resolved once, its result converted only if it is a generator
AwaitedOnce(d) ==
  CASE d = "Generator" -> "Coroutine"
    [] d = "Aw" -> "Aw"
    [] d = "AwGen" -> "Coroutine"
    [] d = "AwCoro" -> "Coroutine"
    [] d = "AwAw" -> "AwGen"
    [] OTHER -> d
HasAwait(d) == d \in {"Aw", "AwGen", "AwCoro", "AwAw"}

\* C40: _to_coroutine resolves __await__ at most once per binding; what
\* __await__ returns is converted with top=False, where a value that is
\* neither a coroutine nor a generator is passed on as it is; the calls of
\* _to_coroutine are nested at most two deep and GET_AWAITABLE ends, also
\* for an object whose __await__ returns an object of its own type
C40_AwaitResolvedOnce ==
  ToCoroutineApplied =>
    /\ fn_out.depth <= 2
    /\ \A i, j \in DOMAIN fn_out.awaited :
         fn_out.awaited[i] = fn_out.awaited[j] => i = j
    /\ SeqRange(fn_out.awaited) \subseteq {<<d, 1>> : d \in fn_in.data}
    /\ fn_out.same <=> \A d \in fn_in.data : IsCoroutine(d)
    /\ ~fn_out.same =>
         /\ SeqRange(fn_out.awaited) =
              {<<d, 1>> : d \in {x \in fn_in.data : HasAwait(x)}}
         /\ {b[1] : b \in fn_out.ret} = {AwaitedOnce(d) : d \in fn_in.data}
    /\ Len(fn_out.stack) = 1

\* awaiting an object whose __await__ returns an object of its own type,
\* or one whose __await__ returns an object with an __await__ of its own
C40_Witness ==
  /\ ToCoroutineApplied
  /\ fn_in.data = {"Aw", "AwAw"}
  /\ fn_out.depth = 2
  /\ Len(fn_out.awaited) = 2
  /\ {b[1] : b \in fn_out.ret} = {"Aw", "AwGen"}

====
